---- MODULE Spec2Model ----
(***************************************************************************)
(* Layout derivation of static-reflect: the structure, union and enum     *)
(* handlers of the StaticReflect derive                                    *)
(* (lib/derive/src/internals/fields.rs, determine_repr of mod.rs), the     *)
(* constant evaluation of the definitions they generate, and the type      *)
(* descriptors of src/types.rs that the generated code consults.           *)
(*                                                                         *)
(* One behaviour is one derivation: the repr of the input is determined    *)
(* (derive_static_reflect); for a structure or union the handler walks the *)
(* fields in declaration order (handle_fields), then the generated         *)
(* definition is evaluated against the layout the host assigned to the     *)
(* type (create_static_def); for an enum enum_static_type gives its        *)
(* TYPE_INFO.  Sizes and alignments are those of a 64-bit host.            *)
(***************************************************************************)
EXTENDS Integers, Sequences, FiniteSets, TLC

VARIABLES kind, style, nfields, input, pc, fields, current_offset,
          gt, expected, def, outcome, repr_items, variants, type_info,
          subject, returned

\* The state of a derivation
derive_vars == <<kind, style, nfields, input, pc, fields, current_offset,
                 gt, expected, def, outcome, repr_items, variants, type_info>>

\* The value a function of the library is called on, and what the calls
\* made on it so far have returned
call_vars == <<subject, returned>>

vars == <<derive_vars, call_vars>>

(***************************************************************************)
(* Bounds                                                                  *)
(***************************************************************************)
\* Largest number of fields of a derived structure or union
MaxFields == 3
\* Largest size the host may report for the derived type
MaxGtSize == 16
\* Largest number of variants of a derived enum
MaxVariants == 3

(***************************************************************************)
(* Rust types.  A type is a base type, or a fixed-length array of a base   *)
(* type: [base |-> b, len |-> -1] is b, [base |-> b, len |-> n] is [b; n]. *)
(***************************************************************************)
NotArray == 0 - 1

Ty(b) == [base |-> b, len |-> NotArray]

Arr(b, n) == [base |-> b, len |-> n]

NoType == [base |-> "none", len |-> NotArray]

\* Type::Array(array) of syn: the declared type is a fixed-length array
IsArray(t) == t.len # NotArray

\* *array.elem
ElemType(t) == Ty(t.base)

\* std::mem::size_of of the base types used as field types (64-bit host);
\* Pair and Triple are repr(C) structs of two and three u8, Nested one of
\* f64 and u64, Handle a foreign handle as wide as a pointer; ptr is
\* *mut String, ptrSelf a pointer to the derived type itself and ptrOuter a
\* pointer to a structure that has a field of the derived type
BaseSize(b) ==
    CASE b = "unit" -> 0
      [] b \in {"u8", "i8", "bool", "NonZeroU8"} -> 1
      [] b \in {"u16", "i16", "Pair"} -> 2
      [] b = "Triple" -> 3
      [] b \in {"u32", "i32", "f32"} -> 4
      [] b \in {"u64", "i64", "f64", "usize", "isize", "ptr", "ptrSelf", "ptrOuter",
                "Handle"} -> 8
      [] b = "Nested" -> 16

\* std::mem::align_of of the same types
BaseAlign(b) ==
    CASE b \in {"unit", "u8", "i8", "bool", "NonZeroU8", "Pair", "Triple"} -> 1
      [] b \in {"u16", "i16"} -> 2
      [] b \in {"u32", "i32", "f32"} -> 4
      [] b \in {"u64", "i64", "f64", "usize", "isize", "ptr", "ptrSelf", "ptrOuter",
                "Handle", "Nested"} -> 8

\* std::mem::size_of::<T>()
size_of(t) == IF IsArray(t) THEN t.len * BaseSize(t.base) ELSE BaseSize(t.base)

\* std::mem::align_of::<T>()
align_of(t) == BaseAlign(t.base)

(***************************************************************************)
(* Type descriptors (TypeInfo)                                             *)
(***************************************************************************)
TI(k, bytes, signed, size, alignment) ==
    [kind |-> k, bytes |-> bytes, signed |-> signed, size |-> size, alignment |-> alignment]

\* The types that implement StaticReflect: the primitives, pointers and
\* NonZero types of src/core.rs and the derived structures Pair, Triple and
\* Nested.  Arrays and Handle do not.
ImplementsStaticReflect(t) ==
    /\ ~IsArray(t)
    /\ t.base \in {"unit", "bool", "u8", "i8", "u16", "i16", "u32", "i32", "u64", "i64",
                   "usize", "isize", "f32", "f64", "ptr", "ptrSelf", "ptrOuter", "NonZeroU8",
                   "Pair", "Triple", "Nested"}

\* The pointer types: *mut T, *const T and NonNull<T>
PointerBases == {"ptr", "ptrSelf", "ptrOuter"}

\* The T of a pointer type; Self is the type being derived, Outer a
\* structure that has a field of type Self, String has no TYPE_INFO
Pointee(b) ==
    CASE b = "ptr" -> "String"
      [] b = "ptrSelf" -> "Self"
      [] b = "ptrOuter" -> "Outer"

\* <T as StaticReflect>::TYPE_INFO
TYPE_INFO(t) ==
    LET b == t.base IN
    CASE b = "unit" -> TI("Unit", 0, FALSE, 0, 0)
      [] b = "bool" -> TI("Bool", 0, FALSE, 0, 0)
      [] b \in {"u8", "NonZeroU8"} -> TI("Integer", 1, FALSE, 0, 0)
      [] b = "i8" -> TI("Integer", 1, TRUE, 0, 0)
      [] b = "u16" -> TI("Integer", 2, FALSE, 0, 0)
      [] b = "i16" -> TI("Integer", 2, TRUE, 0, 0)
      [] b = "u32" -> TI("Integer", 4, FALSE, 0, 0)
      [] b = "i32" -> TI("Integer", 4, TRUE, 0, 0)
      [] b \in {"u64", "usize"} -> TI("Integer", 8, FALSE, 0, 0)
      [] b \in {"i64", "isize"} -> TI("Integer", 8, TRUE, 0, 0)
      [] b = "f32" -> TI("Float", 4, FALSE, 0, 0)
      [] b = "f64" -> TI("Float", 8, FALSE, 0, 0)
      [] b \in PointerBases -> TI("Pointer", 0, FALSE, 0, 0)
      [] b = "Pair" -> TI("Structure", 0, FALSE, 2, 1)
      [] b = "Triple" -> TI("Structure", 0, FALSE, 3, 1)
      [] b = "Nested" -> TI("Structure", 0, FALSE, 16, 8)

\* Referenced with a pointer holding the descriptor of what it points to
Referenced_Pointee(b) ==
    CASE b \in {"Pair", "Triple"} -> {"u8"}
      [] b = "Nested" -> {"f64", "u64"}
      [] b = "Outer" -> {"Self", "u32"}
      [] b \in PointerBases -> {Pointee(b)}
      [] OTHER -> {}

\* The types whose descriptors the TYPE_INFO of a type holds: the types of
\* its fields for a structure (StructureDef.fields), none for the
\* primitives and for TypeInfo::Pointer, which has no payload
Referenced(b) ==
    CASE b \in {"Pair", "Triple"} -> {"u8"}
      [] b = "Nested" -> {"f64", "u64"}
      [] b = "Outer" -> {"Self", "u32"}
      [] OTHER -> {}

\* IntType::align
IntTypeAlign(ti) ==
    CASE ti.bytes = 1 -> 1
      [] ti.bytes = 2 -> 2
      [] ti.bytes = 4 -> 4
      [] ti.bytes = 8 -> 8

\* The panic of unimplemented!()
Unimplemented == 0 - 1

\* TypeInfo::size; the arm of Magic and Extern, a dummy value of 32 one
\* bits, is left out
TypeInfoSize(ti) ==
    CASE ti.kind = "Unit" -> 0
      [] ti.kind = "Never" -> 0
      [] ti.kind = "Bool" -> 1
      [] ti.kind = "Integer" -> ti.bytes
      [] ti.kind = "Float" -> ti.bytes
      [] ti.kind = "Slice" -> 16
      [] ti.kind = "Optional" -> Unimplemented
      [] ti.kind = "Pointer" -> 8
      [] ti.kind = "Str" -> 16
      [] ti.kind = "Structure" -> ti.size
      [] ti.kind = "UntaggedUnion" -> ti.size
      [] ti.kind = "TaggedUnion" -> ti.size
      [] ti.kind = "CStyleEnum" -> ti.bytes

\* TypeInfo::alignment
TypeInfoAlignment(ti) ==
    CASE ti.kind = "Unit" -> 1
      [] ti.kind = "Never" -> 1
      [] ti.kind \in {"Magic", "Extern"} -> 0
      [] ti.kind = "Bool" -> 1
      [] ti.kind = "Integer" -> IntTypeAlign(ti)
      [] ti.kind = "Float" -> ti.bytes
      [] ti.kind \in {"Slice", "Optional"} -> Unimplemented
      [] ti.kind = "Pointer" -> 8
      [] ti.kind = "Str" -> 8
      [] ti.kind = "Structure" -> ti.alignment
      [] ti.kind = "UntaggedUnion" -> ti.alignment
      [] ti.kind = "CStyleEnum" -> IntTypeAlign(ti)
      [] ti.kind = "TaggedUnion" -> ti.alignment

(***************************************************************************)
(* Field options (DeriveFieldOptions)                                      *)
(***************************************************************************)
\* A flag of a reflect(...) attribute: opaque_array, assume_repr = "T", or
\* an identifier the parser does not know
Flag(f, t) == [flag |-> f, ty |-> t]

\* An attribute of a field: its path and the flags between its parentheses
Attr(p, fl) == [path |-> p, flags |-> fl]

\* DeriveFieldOptions::default
DefaultOptions == [ok |-> TRUE, opaque_array |-> FALSE, assume_repr |-> NoType, err |-> ""]

\* The `while !input.is_empty()` loop of DeriveFieldOptions::parse, from flag i on
RECURSIVE ParseLoop(_, _, _)
ParseLoop(flags, i, args) ==
    IF i > Len(flags) THEN args
    ELSE CASE flags[i].flag = "opaque_array" ->
                ParseLoop(flags, i + 1, [args EXCEPT !.opaque_array = TRUE])
           [] flags[i].flag = "assume_repr" ->
                ParseLoop(flags, i + 1, [args EXCEPT !.assume_repr = flags[i].ty])
           [] OTHER -> [args EXCEPT !.ok = FALSE, !.err = "Invalid flag"]

\* impl Parse for DeriveFieldOptions
Parse(flags) ==
    LET args == ParseLoop(flags, 1, DefaultOptions) IN
    IF ~args.ok THEN args
    ELSE IF args.assume_repr # NoType /\ args.opaque_array
         THEN [args EXCEPT !.ok = FALSE, !.err = "opaque_array is incompatible with assume_repr"]
         ELSE args

\* DeriveFieldOptions::parse_attrs: the first reflect / static_reflect
\* attribute decides, from attribute i on
RECURSIVE parse_attrs_from(_, _)
parse_attrs_from(attrs, i) ==
    IF i > Len(attrs) THEN DefaultOptions
    ELSE IF attrs[i].path \in {"reflect", "static_reflect"}
         THEN Parse(attrs[i].flags)
         ELSE parse_attrs_from(attrs, i + 1)

parse_attrs(attrs) == parse_attrs_from(attrs, 1)

(***************************************************************************)
(* Field definitions                                                       *)
(***************************************************************************)
NoIdent == [some |-> FALSE, name |-> ""]

SomeIdent(n) == [some |-> TRUE, name |-> n]

\* FieldDef with the fields counted from 1
FieldDef_CountedFromOne(name, value_type, offset, index) ==
    [name |-> name, value_type |-> value_type, offset |-> offset, index |-> index + 1]

\* FieldDef { name, value_type, offset, index }; value_type is the type whose
\* TypeId the definition carries
FieldDef(name, value_type, offset, index) ==
    [name |-> name, value_type |-> value_type, offset |-> offset, index |-> index]

\* UnionFieldDef { name, value_type, index }, with what UnionFieldDef::offset
\* returns for it
UnionFieldDef(name, value_type, index) ==
    [name |-> name, value_type |-> value_type, offset |-> 0, index |-> index]

\* PaddedOffset adding the remainder instead of what is missing to the
\* next multiple
PaddedOffset_AddsRemainder(old_offset, original_type) ==
    old_offset + (old_offset % align_of(original_type))

\* The padded offset: `old_offset + (if rem == 0 { 0 } else { align - rem })`
PaddedOffset(old_offset, original_type) ==
    LET rem == old_offset % align_of(original_type) IN
    old_offset + (IF rem = 0 THEN 0 ELSE align_of(original_type) - rem)

\* AdvanceOffset that leaves the size of the field out
AdvanceOffset_WithoutSize(offset, original_type) == offset

\* The offset after a field: `(#current_offset) + size_of::<#original_type>()`
AdvanceOffset(offset, original_type) == offset + size_of(original_type)

\* The result of one iteration of a handle_fields loop
StepOk(fd, off) == [ok |-> TRUE, err |-> "", field |-> fd, current_offset |-> off]

StepErr(msg) ==
    [ok |-> FALSE, err |-> msg, field |-> FieldDef(NoIdent, NoType, 0, 0), current_offset |-> 0]

\* The type a structure field exposes: the element type of an opaque array,
\* replaced by the assumed type when assume_repr is given
StructFieldType(ty, opts) ==
    IF opts.assume_repr # NoType THEN opts.assume_repr
    ELSE IF opts.opaque_array THEN ElemType(ty) ELSE ty

\* StructFieldStep advancing by the size of the exposed type
StructFieldStep_AdvancesExposed(field, index, len, offset_before) ==
    LET opts == parse_attrs(field.attrs) IN
    IF ~opts.ok THEN StepErr(opts.err)
    ELSE IF opts.opaque_array /\ index + 1 # len
         THEN StepErr("Opaque array must be last field")
    ELSE IF opts.opaque_array /\ ~IsArray(field.ty)
         THEN StepErr("Type must be an array to be marked 'opaque_array'")
    ELSE LET offset == PaddedOffset(offset_before, field.ty) IN
         StepOk(FieldDef(field.ident, StructFieldType(field.ty, opts), offset, index),
                AdvanceOffset(offset, StructFieldType(field.ty, opts)))

\* StructFieldStep padding to the alignment of the exposed type
StructFieldStep_PadsExposed(field, index, len, offset_before) ==
    LET opts == parse_attrs(field.attrs) IN
    IF ~opts.ok THEN StepErr(opts.err)
    ELSE IF opts.opaque_array /\ index + 1 # len
         THEN StepErr("Opaque array must be last field")
    ELSE IF opts.opaque_array /\ ~IsArray(field.ty)
         THEN StepErr("Type must be an array to be marked 'opaque_array'")
    ELSE LET offset == PaddedOffset(offset_before, StructFieldType(field.ty, opts)) IN
         StepOk(FieldDef(field.ident, StructFieldType(field.ty, opts), offset, index),
                AdvanceOffset(offset, field.ty))

\* StructFieldStep accepting an opaque array in any position
StructFieldStep_AnyPosition(field, index, len, offset_before) ==
    LET opts == parse_attrs(field.attrs) IN
    IF ~opts.ok THEN StepErr(opts.err)
    ELSE IF opts.opaque_array /\ ~IsArray(field.ty)
         THEN StepErr("Type must be an array to be marked 'opaque_array'")
    ELSE LET offset == PaddedOffset(offset_before, field.ty) IN
         StepOk(FieldDef(field.ident, StructFieldType(field.ty, opts), offset, index),
                AdvanceOffset(offset, field.ty))

\* One iteration of the loop of StructHandler::handle_fields, on the field
\* of the given index of a structure of len fields
StructFieldStep(field, index, len, offset_before) ==
    LET opts == parse_attrs(field.attrs) IN
    IF ~opts.ok THEN StepErr(opts.err)
    ELSE IF opts.opaque_array /\ index + 1 # len
         THEN StepErr("Opaque array must be last field")
    ELSE IF opts.opaque_array /\ ~IsArray(field.ty)
         THEN StepErr("Type must be an array to be marked 'opaque_array'")
    ELSE LET offset == PaddedOffset(offset_before, field.ty) IN
         StepOk(FieldDef(field.ident, StructFieldType(field.ty, opts), offset, index),
                AdvanceOffset(offset, field.ty))

\* What the loop of handle_fields has done so far: the definitions handed
\* to the handler and the running offset, or the error it returned
Handled(fs, off) == [ok |-> TRUE, err |-> "", fields |-> fs, current_offset |-> off]

\* StructHandler::handle_fields on the fields fs, from the given index on
RECURSIVE StructHandleFieldsFrom(_, _, _)
StructHandleFieldsFrom(fs, index, acc) ==
    IF index >= Len(fs) THEN acc
    ELSE LET step == StructFieldStep(fs[index + 1], index, Len(fs), acc.current_offset) IN
         IF ~step.ok THEN [acc EXCEPT !.ok = FALSE, !.err = step.err]
         ELSE StructHandleFieldsFrom(fs, index + 1,
                  Handled(Append(acc.fields, step.field), step.current_offset))

\* StructHandler::handle_fields of a new StructHandler
StructHandleFields(fs) == StructHandleFieldsFrom(fs, 0, Handled(<<>>, 0))

\* The type a union field exposes
UnionFieldType(ty, opts) ==
    IF opts.assume_repr # NoType THEN opts.assume_repr ELSE ty

\* UnionFieldStep accepting opaque arrays
UnionFieldStep_AllowsOpaque(field, index) ==
    LET opts == parse_attrs(field.attrs) IN
    IF ~opts.ok THEN StepErr(opts.err)
    ELSE StepOk(UnionFieldDef(field.ident, UnionFieldType(field.ty, opts), index), 0)

\* One iteration of the loop of UnionTypeHandler::handle_fields
UnionFieldStep(field, index) ==
    LET opts == parse_attrs(field.attrs) IN
    IF ~opts.ok THEN StepErr(opts.err)
    ELSE IF opts.opaque_array THEN StepErr("opaque_array is not supported on unions")
    ELSE StepOk(UnionFieldDef(field.ident, UnionFieldType(field.ty, opts), index), 0)

(***************************************************************************)
(* The generated definitions (create_static_def)                           *)
(***************************************************************************)
Layout(size, alignment) == [size |-> size, alignment |-> alignment]

NoLayout == Layout(0 - 1, 0 - 1)

\* value_type.type_ref().value().alignment() of a field definition
FieldAlignment(f) == TypeInfoAlignment(TYPE_INFO(f.value_type))

\* value_type.type_ref().value().size() of a field definition
FieldSize(f) == TypeInfoSize(TYPE_INFO(f.value_type))

\* ExpectedAlignmentLoop with the comparison reversed
RECURSIVE ExpectedAlignmentLoop_Reversed(_, _, _)
ExpectedAlignmentLoop_Reversed(fs, index, expected_alignment) ==
    IF index >= Len(fs) THEN expected_alignment
    ELSE LET alignment == FieldAlignment(fs[index + 1]) IN
         ExpectedAlignmentLoop_Reversed(fs, index + 1,
             IF alignment < expected_alignment THEN alignment ELSE expected_alignment)

\* The `while index < fields.len()` loop computing expected_alignment
RECURSIVE ExpectedAlignmentLoop(_, _, _)
ExpectedAlignmentLoop(fs, index, expected_alignment) ==
    IF index >= Len(fs) THEN expected_alignment
    ELSE LET alignment == FieldAlignment(fs[index + 1]) IN
         ExpectedAlignmentLoop(fs, index + 1,
             IF alignment > expected_alignment THEN alignment ELSE expected_alignment)

\* ExpectedSizeLoop keeping the size of the last field
RECURSIVE ExpectedSizeLoop_Last(_, _, _)
ExpectedSizeLoop_Last(fs, index, expected_size) ==
    IF index >= Len(fs) THEN expected_size
    ELSE ExpectedSizeLoop_Last(fs, index + 1, FieldSize(fs[index + 1]))

\* The same loop computing the expected_size of a union
RECURSIVE ExpectedSizeLoop(_, _, _)
ExpectedSizeLoop(fs, index, expected_size) ==
    IF index >= Len(fs) THEN expected_size
    ELSE LET size == FieldSize(fs[index + 1]) IN
         ExpectedSizeLoop(fs, index + 1,
             IF size > expected_size THEN size ELSE expected_size)

\* StructExpectedSize adding a whole alignment
StructExpectedSize_WholeAlignment(offset, self_align) == offset + self_align

\* `let expected_size = current_offset + current_offset % align_of::<#name>()`
StructExpectedSize(offset, self_align) == offset + (offset % self_align)

\* StructExpectedAlignment starting from 0
StructExpectedAlignment_FromZero(fs) == ExpectedAlignmentLoop(fs, 0, 0)

\* expected_alignment of a structure: starts at align_of::<()>()
StructExpectedAlignment(fs) == ExpectedAlignmentLoop(fs, 0, 1)

\* expected_alignment of a union
UnionExpectedAlignment(fs) == ExpectedAlignmentLoop(fs, 0, 1)

\* UnionRoundUp without the rounding
UnionRoundUp_Unrounded(expected_size, expected_alignment) == expected_size

\* "Round expected size up to next multiple of alignment"
UnionRoundUp(expected_size, expected_alignment) ==
    LET rem == expected_size % expected_alignment IN
    IF rem # 0 THEN expected_size + (expected_alignment - rem) ELSE expected_size

\* expected_size of a union: starts at size_of::<()>()
UnionExpectedSize(fs) == UnionRoundUp(ExpectedSizeLoop(fs, 0, 0), UnionExpectedAlignment(fs))

\* Verify refusing only a host size below the expected one
Verify_OnlySmaller(d, exp) ==
    IF d.size < exp.size THEN "Mismatched size"
    ELSE IF d.alignment # exp.alignment THEN "Mismatched alignments"
    ELSE "descriptor"

\* Verify comparing the alignments before the sizes
Verify_AlignmentFirst(d, exp) ==
    IF d.alignment # exp.alignment THEN "Mismatched alignments"
    ELSE IF d.size # exp.size THEN "Mismatched size"
    ELSE "descriptor"

\* The two comparisons that end create_static_def
Verify(d, exp) ==
    IF d.size # exp.size THEN "Mismatched size"
    ELSE IF d.alignment # exp.alignment THEN "Mismatched alignments"
    ELSE "descriptor"

\* Every exposed type has a TYPE_INFO: TypeId::<#field_type>::get() needs
\* #field_type: StaticReflect
AllStaticReflect(fs) == \A i \in 1..Len(fs) : ImplementsStaticReflect(fs[i].value_type)

(***************************************************************************)
(* The repr attribute (determine_repr) and enums (enum_static_type)        *)
(***************************************************************************)
\* Repr::C
ReprC == [tag |-> "C", signed |-> FALSE, bits |-> 0]

\* Repr::Transparent
ReprTransparent == [tag |-> "Transparent", signed |-> FALSE, bits |-> 0]

\* Repr::Integer { signed, bits }
ReprInteger(signed, bits) == [tag |-> "Integer", signed |-> signed, bits |-> bits]

\* None of Option<Repr>
NoRepr == [tag |-> "None", signed |-> FALSE, bits |-> 0]

\* "u8" | "u16" | "u32" | "u64" | "i8" | "i16" | "i32" | "i64"
IntegerReprNames == {"u8", "u16", "u32", "u64", "i8", "i16", "i32", "i64"}

\* u32::from_str(&s[1..]).unwrap()
ReprBits(s) ==
    CASE s \in {"u8", "i8"} -> 8
      [] s \in {"u16", "i16"} -> 16
      [] s \in {"u32", "i32"} -> 32
      [] s \in {"u64", "i64"} -> 64

\* match s.chars().next() { Some('i') => true, Some('u') => false }
ReprSigned(s) == s \in {"i8", "i16", "i32", "i64"}

ReprOk(r) == [ok |-> TRUE, repr |-> r, err |-> ""]

ReprErr(msg) == [ok |-> FALSE, repr |-> NoRepr, err |-> msg]

\* The callback of parse_nested_meta over the items of the repr
\* attributes, from item i on, result being what the earlier items gave
RECURSIVE determine_repr_from(_, _, _)
determine_repr_from(items, i, result) ==
    IF i > Len(items) THEN ReprOk(result)
    ELSE IF result # NoRepr THEN ReprErr("Encountered multiple repr(...) attributes")
    ELSE IF items[i] = "C" THEN determine_repr_from(items, i + 1, ReprC)
    ELSE IF items[i] = "transparent" THEN determine_repr_from(items, i + 1, ReprTransparent)
    ELSE IF items[i] \in IntegerReprNames
         THEN determine_repr_from(items, i + 1,
                                  ReprInteger(ReprSigned(items[i]), ReprBits(items[i])))
    ELSE ReprErr("Unknown #[repr])")

determine_repr(items) == determine_repr_from(items, 1, NoRepr)

\* No literal after the name of a variant
NoLiteral == 0 - 1

\* A syn::Variant: the number of its fields, between braces ("named"),
\* between parentheses ("unnamed") or without either ("unit"), and its
\* explicit discriminant
Variant(shape, n, literal) == [shape |-> shape, nfields |-> n, literal |-> literal]

\* data.variants.iter().all(|var| var.fields.is_empty())
is_c_style_enum(vs) == \A i \in 1..Len(vs) : vs[i].nfields = 0

NoTypeInfo == TI("none", 0, FALSE, 0, 0)

\* The panic of IntSize::unwrap_from_bytes
InvalidBytes == 0 - 1

\* IntSize::unwrap_from_bytes
unwrap_from_bytes(bytes) == IF bytes \in {1, 2, 4, 8} THEN bytes ELSE InvalidBytes

\* equivalent_integer with repr(C) under another signedness
equivalent_integer_Signed(repr, size) ==
    IF repr = ReprC
    THEN TI("Integer", unwrap_from_bytes(size), TRUE, 0, 0)
    ELSE TI("Integer", unwrap_from_bytes(repr.bits \div 8), repr.signed, 0, 0)

\* equivalent_integer: the IntType of an enum of the given repr (C or
\* Integer) whose measured size is size
equivalent_integer(repr, size) ==
    IF repr = ReprC
    THEN TI("Integer", unwrap_from_bytes(size), FALSE, 0, 0)
    ELSE TI("Integer", unwrap_from_bytes(repr.bits \div 8), repr.signed, 0, 0)

EnumOk(ti) == [ok |-> TRUE, err |-> "", type_info |-> ti]

EnumErr(msg) == [ok |-> FALSE, err |-> msg, type_info |-> NoTypeInfo]

\* enum_static_type accepting every enum
enum_static_type_AnyShape(vs, repr, size) ==
    IF repr.tag \notin {"C", "Integer"}
    THEN EnumErr("Enum types must be either #[repr(C)] or #[repr(Int)]")
    ELSE EnumOk(equivalent_integer(repr, size))

\* enum_static_type, with the generated expression evaluated
enum_static_type(vs, repr, size) ==
    IF repr.tag \notin {"C", "Integer"}
    THEN EnumErr("Enum types must be either #[repr(C)] or #[repr(Int)]")
    ELSE IF is_c_style_enum(vs)
         THEN IF equivalent_integer(repr, size).bytes = InvalidBytes
              THEN EnumErr("Invalid number of bytes")
              ELSE EnumOk(equivalent_integer(repr, size))
         ELSE EnumErr("Complex enums are currently unsupported")

\* def_into_type: TypeInfo::Structure(_DEF) or TypeInfo::UntaggedUnion(_DEF)
def_into_type(k, d) ==
    TI(IF k = "struct" THEN "Structure" ELSE "UntaggedUnion", 0, FALSE, d.size, d.alignment)

(***************************************************************************)
(* Inputs of a derivation                                                  *)
(***************************************************************************)
\* The identifiers of named fields, in declaration order
FieldNames == <<"a", "b", "c", "d", "e", "f">>

OpaqueArrayAttr == Attr("static_reflect", <<Flag("opaque_array", NoType)>>)

AssumeReprAttr(t) == Attr("reflect", <<Flag("assume_repr", t)>>)

\* The declared type and the attributes of a field
Decl(t, attrs) == [ty |-> t, attrs |-> attrs]

\* Fields without options: integers of alignment 1, 2 and 8, the
\* zero-sized unit, a nested structure of three bytes, and an array (which
\* has no TYPE_INFO of its own)
PlainFields ==
    {Decl(Ty(b), <<>>) : b \in {"u8", "u16", "u64", "unit", "Triple"}}
        \cup {Decl(Arr("u8", 3), <<Attr("doc", <<>>)>>)}

\* Fields with options that parse: assume_repr of a type of the same
\* layout, of a larger type of the same alignment and of a type of larger
\* alignment; opaque_array on an empty array, on a non-empty array and on
\* a type that is no array
OptionFields ==
    {Decl(Ty("u8"), <<AssumeReprAttr(Ty("i8"))>>),
     Decl(Ty("u8"), <<AssumeReprAttr(Ty("Triple"))>>),
     Decl(Ty("Handle"), <<AssumeReprAttr(Ty("u64"))>>),
     Decl(Ty("u16"), <<AssumeReprAttr(Ty("u64"))>>),
     Decl(Arr("u64", 0), <<Attr("doc", <<>>), OpaqueArrayAttr>>),
     Decl(Arr("u8", 3), <<OpaqueArrayAttr>>),
     Decl(Ty("u16"), <<OpaqueArrayAttr>>)}

\* Fields whose options do not parse: both options at once, an unknown flag
BadOptionFields ==
    {Decl(Arr("u8", 3),
          <<Attr("reflect", <<Flag("opaque_array", NoType), Flag("assume_repr", Ty("u8"))>>)>>),
     Decl(Ty("u8"), <<Attr("reflect", <<Flag("packed", NoType)>>)>>)}

\* Fields with the two options in two attributes: only the first reflect
\* or static_reflect attribute of a field is parsed
SpreadOptionFields ==
    {Decl(Arr("u8", 3), <<OpaqueArrayAttr, AssumeReprAttr(Ty("u8"))>>),
     Decl(Ty("u8"), <<AssumeReprAttr(Ty("i8")), OpaqueArrayAttr>>)}

FieldChoices == PlainFields \cup OptionFields \cup BadOptionFields \cup SpreadOptionFields

\* The fields of structures that hold pointers: a pointer to a type without
\* TYPE_INFO, to the derived type itself and to a structure that contains
\* it, and fields of other sizes and alignments
PointerFieldChoices ==
    {Decl(Ty(b), <<>>) : b \in {"ptr", "ptrSelf", "ptrOuter", "u32", "bool", "f64"}}

\* The items of the repr attributes of the input: none, C, transparent,
\* integers, two items, and an item determine_repr does not know
ReprChoices ==
    {<<>>, <<"C">>, <<"transparent">>, <<"u8">>, <<"i32">>, <<"C", "u8">>, <<"packed">>}

\* The variants of an enum: unit variants without and with a literal,
\* variants with an empty field list, and variants that carry data
VariantChoices ==
    {Variant("unit", 0, NoLiteral), Variant("unit", 0, 2), Variant("named", 0, NoLiteral),
     Variant("unnamed", 0, 4), Variant("unnamed", 1, NoLiteral), Variant("named", 2, NoLiteral)}

\* The sequences of the elements of S of the given length
RECURSIVE SeqsOfLen(_, _)
SeqsOfLen(S, n) ==
    IF n = 0 THEN {<<>>}
    ELSE {Append(q, x) : q \in SeqsOfLen(S, n - 1), x \in S}

\* The enums of the input: at least one variant
EnumChoices == UNION {SeqsOfLen(VariantChoices, n) : n \in 1..MaxVariants}

\* std::mem::size_of of an enum of the given repr: that of the integer for
\* an integer repr, that of the C enum of the target for repr(C)
EnumHostSizes(repr) ==
    IF repr.tag = "Integer" THEN {repr.bits \div 8} ELSE {1, 2, 4, 8}

\* The alignments a host assigns
HostAlignments == {1, 2, 4, 8}

\* What the host may report as size_of and align_of of the derived type:
\* the size of a Rust type is a multiple of its alignment
GroundTruths ==
    UNION {{Layout(s, a) : s \in {x \in 0..MaxGtSize : x % a = 0}} : a \in HostAlignments}

\* field.ident of the field of the given index
Ident(index) == IF style = "tuple" THEN NoIdent ELSE SomeIdent(FieldNames[index + 1])

\* The syn::Field of the given index with the chosen type and attributes
Field(c, index) == [ident |-> Ident(index), ty |-> c.ty, attrs |-> c.attrs]

(***************************************************************************)
(* The derivation                                                          *)
(***************************************************************************)
\* No value is inspected
NoSubject == [what |-> "none"]

\* No call has returned: the calls that have returned, by name
NotCalled == <<>>

Init ==
    /\ kind \in {"struct", "union", "enum"}
    /\ style \in {"named", "tuple"}
    /\ kind \in {"union", "enum"} => style = "named"
    /\ nfields \in 0..MaxFields
    /\ kind = "enum" => nfields = 0
    /\ repr_items \in ReprChoices
    /\ variants \in (IF kind = "enum" THEN EnumChoices ELSE {<<>>})
    /\ type_info = NoTypeInfo
    /\ input = <<>>
    /\ pc = "start"
    /\ fields = <<>>
    /\ current_offset = 0
    /\ gt = NoLayout
    /\ expected = NoLayout
    /\ def = NoLayout
    /\ outcome = "none"
    /\ subject = NoSubject
    /\ returned = NotCalled

\* ApplyStep handing the field to the handler before its options are
\* looked at
ApplyStep_HandsOverFirst(f, step) ==
    /\ input' = Append(input, f)
    /\ fields' = Append(fields, step.field)
    /\ IF step.ok
       THEN /\ current_offset' = step.current_offset
            /\ UNCHANGED <<pc, outcome>>
       ELSE /\ pc' = "error"
            /\ outcome' = step.err
            /\ UNCHANGED current_offset
    /\ UNCHANGED <<kind, style, nfields, gt, expected, def, repr_items, variants, type_info>>
    /\ UNCHANGED call_vars

\* The effect of one loop iteration on the derivation
ApplyStep(f, step) ==
    /\ input' = Append(input, f)
    /\ IF step.ok
       THEN /\ fields' = Append(fields, step.field)
            /\ current_offset' = step.current_offset
            /\ UNCHANGED <<pc, outcome>>
       ELSE /\ pc' = "error"
            /\ outcome' = step.err
            /\ UNCHANGED <<fields, current_offset>>
    /\ UNCHANGED <<kind, style, nfields, gt, expected, def, repr_items, variants, type_info>>
    /\ UNCHANGED call_vars

\* DeriveStaticReflect without the comparison of the repr with Repr::C
DeriveStaticReflect_AnyRepr ==
    /\ pc = "start"
    /\ LET r == determine_repr(repr_items) IN
       IF ~r.ok
       THEN pc' = "error" /\ outcome' = r.err
       ELSE pc' = (IF kind = "enum" THEN "enum" ELSE "fields") /\ UNCHANGED outcome
    /\ UNCHANGED <<kind, style, nfields, input, fields, current_offset, gt, expected, def,
                   repr_items, variants, type_info>>
    /\ UNCHANGED call_vars

\* derive_static_reflect up to the match on input.data: the repr of the
\* input is determined, and must be C unless the input is an enum
DeriveStaticReflect ==
    /\ pc = "start"
    /\ LET r == determine_repr(repr_items) IN
       IF ~r.ok
       THEN pc' = "error" /\ outcome' = r.err
       ELSE IF r.repr # ReprC /\ kind # "enum"
            THEN pc' = "error" /\ outcome' = "StaticReflect requires repr(C)"
            ELSE pc' = (IF kind = "enum" THEN "enum" ELSE "fields") /\ UNCHANGED outcome
    /\ UNCHANGED <<kind, style, nfields, input, fields, current_offset, gt, expected, def,
                   repr_items, variants, type_info>>
    /\ UNCHANGED call_vars

\* Data::Enum(ref data) => enum_static_type(data, repr, &name), and the
\* evaluation of the TYPE_INFO it generates on a host where the enum has
\* the size g
EnumStaticType ==
    /\ pc = "enum"
    /\ LET repr == determine_repr(repr_items).repr IN
       \E g \in EnumHostSizes(repr) :
         LET r == enum_static_type(variants, repr, g) IN
         /\ pc' = (IF r.ok THEN "done" ELSE "error")
         /\ outcome' = (IF r.ok THEN "descriptor" ELSE r.err)
         /\ type_info' = r.type_info
         /\ gt' = (IF r.ok THEN Layout(g, g) ELSE NoLayout)
    /\ UNCHANGED <<kind, style, nfields, input, fields, current_offset, expected, def,
                   repr_items, variants>>
    /\ UNCHANGED call_vars

\* StructHandler::handle_fields, one iteration
StructHandleField ==
    /\ pc = "fields"
    /\ kind = "struct"
    /\ Len(input) < nfields
    /\ \E c \in FieldChoices :
         LET index == Len(input)
             f == Field(c, index)
         IN ApplyStep(f, StructFieldStep(f, index, nfields, current_offset))

\* UnionTypeHandler::handle_fields, one iteration
UnionHandleField ==
    /\ pc = "fields"
    /\ kind = "union"
    /\ Len(input) < nfields
    /\ \E c \in FieldChoices :
         LET index == Len(input)
             f == Field(c, index)
         IN ApplyStep(f, UnionFieldStep(f, index))

\* Evaluate leaving the definition behind when the comparison fails
Evaluate_KeepsDefinition(g, exp) ==
    /\ gt' = g
    /\ expected' = exp
    /\ outcome' = Verify(g, exp)
    /\ pc' = IF Verify(g, exp) = "descriptor" THEN "done" ELSE "error"
    /\ def' = g
    /\ type_info' = def_into_type(kind, g)
    /\ UNCHANGED <<kind, style, nfields, input, fields, current_offset, repr_items, variants>>
    /\ UNCHANGED call_vars

\* The evaluation of a generated definition against the host's layout g
Evaluate(g, exp) ==
    /\ gt' = g
    /\ expected' = exp
    /\ outcome' = Verify(g, exp)
    /\ pc' = IF Verify(g, exp) = "descriptor" THEN "done" ELSE "error"
    /\ def' = IF Verify(g, exp) = "descriptor" THEN g ELSE NoLayout
    /\ type_info' = IF Verify(g, exp) = "descriptor" THEN def_into_type(kind, g) ELSE NoTypeInfo
    /\ UNCHANGED <<kind, style, nfields, input, fields, current_offset, repr_items, variants>>
    /\ UNCHANGED call_vars

\* The generated code does not type-check: a field type has no TYPE_INFO
NotStaticReflect ==
    /\ pc = "fields"
    /\ Len(input) = nfields
    /\ ~AllStaticReflect(fields)
    /\ pc' = "error"
    /\ outcome' = "StaticReflect is not implemented"
    /\ UNCHANGED <<kind, style, nfields, input, fields, current_offset, gt, expected, def,
                   repr_items, variants, type_info>>
    /\ UNCHANGED call_vars

\* StructHandler::create_static_def, evaluated
StructCreateStaticDef ==
    /\ pc = "fields"
    /\ kind = "struct"
    /\ Len(input) = nfields
    /\ AllStaticReflect(fields)
    /\ \E g \in GroundTruths :
         Evaluate(g, Layout(StructExpectedSize(current_offset, g.alignment),
                            StructExpectedAlignment(fields)))

\* UnionTypeHandler::create_static_def, evaluated
UnionCreateStaticDef ==
    /\ pc = "fields"
    /\ kind = "union"
    /\ Len(input) = nfields
    /\ AllStaticReflect(fields)
    /\ \E g \in GroundTruths :
         Evaluate(g, Layout(UnionExpectedSize(fields), UnionExpectedAlignment(fields)))

Next ==
    \/ DeriveStaticReflect
    \/ EnumStaticType
    \/ StructHandleField
    \/ UnionHandleField
    \/ NotStaticReflect
    \/ StructCreateStaticDef
    \/ UnionCreateStaticDef

Spec == Init /\ [][Next]_vars

(***************************************************************************)
(* The derivation of repr(C) structures and unions that hold pointers      *)
(***************************************************************************)
PointerInit ==
    /\ Init
    /\ kind \in {"struct", "union"}
    /\ repr_items = <<"C">>

\* StructHandler::handle_fields, one iteration, on a field of a structure
\* that holds pointers
StructHandlePointerField ==
    /\ pc = "fields"
    /\ kind = "struct"
    /\ Len(input) < nfields
    /\ \E c \in PointerFieldChoices :
         LET index == Len(input)
             f == Field(c, index)
         IN ApplyStep(f, StructFieldStep(f, index, nfields, current_offset))

\* UnionTypeHandler::handle_fields, one iteration, on a field of a union
\* that holds pointers
UnionHandlePointerField ==
    /\ pc = "fields"
    /\ kind = "union"
    /\ Len(input) < nfields
    /\ \E c \in PointerFieldChoices :
         LET index == Len(input)
             f == Field(c, index)
         IN ApplyStep(f, UnionFieldStep(f, index))

PointerNext ==
    \/ DeriveStaticReflect
    \/ StructHandlePointerField
    \/ UnionHandlePointerField
    \/ StructCreateStaticDef
    \/ UnionCreateStaticDef

PointerSpec == PointerInit /\ [][PointerNext]_vars

(***************************************************************************)
(* Properties                                                              *)
(***************************************************************************)
\* The largest element of a non-empty set of numbers
SetMax(S) == CHOOSE m \in S : \A x \in S : x <= m

\* The least multiple of a that is at least n
RoundedUp(n, a) == CHOOSE m \in n..(n + a - 1) : m % a = 0

\* The declared (anchor) type of the k-th emitted field
Anchor(k) == input[k].ty

\* The end of the k-th emitted field, counting the size of its declared
\* type; 0 before the first field
EndOf(k) == IF k = 0 THEN 0 ELSE fields[k].offset + size_of(Anchor(k))

\* The offsets the repr(C) rules assign to declared types, from the
\* declared types alone
RECURSIVE ReprCOffset(_, _)
ReprCOffset(tys, k) ==
    IF k = 1 THEN 0
    ELSE RoundedUp(ReprCOffset(tys, k - 1) + size_of(tys[k - 1]), align_of(tys[k]))

DeclaredTypes == [k \in 1..Len(input) |-> input[k].ty]

\* create_static_def has been evaluated against the host's layout
Verified == kind \in {"struct", "union"} /\ gt # NoLayout

\* The verifier accepted the layout and the descriptor exists
Accepted == outcome = "descriptor"

\* C1: in a structure, the offset emitted for a field is the running offset
\* rounded up to the next multiple of the alignment of the field's declared
\* type, the running offset being 0 at first and the field's offset plus
\* the size of its declared type afterwards; the emitted offsets are the
\* repr(C) offsets of the declared types.
C1_StructOffsets ==
    kind = "struct" =>
        /\ \A k \in 1..Len(fields) :
              /\ fields[k].offset = RoundedUp(EndOf(k - 1), align_of(Anchor(k)))
              /\ fields[k].offset = ReprCOffset(DeclaredTypes, k)
        /\ current_offset = EndOf(Len(fields))

\* A structure whose second field needed padding and whose third did not
C1_Witness ==
    /\ kind = "struct"
    /\ Len(fields) = 3
    /\ fields[2].offset > EndOf(1)
    /\ fields[3].offset = EndOf(2)
    /\ fields[3].offset > 0

\* The size and alignment the repr(C) rules assign to a structure of the
\* given declared types
ReprCLayout(tys) ==
    LET a == SetMax({1} \cup {align_of(tys[k]) : k \in 1..Len(tys)})
        end == IF Len(tys) = 0 THEN 0
               ELSE ReprCOffset(tys, Len(tys)) + size_of(tys[Len(tys)])
    IN Layout(RoundedUp(end, a), a)

\* C2: the expected size of a structure is the final running offset rounded
\* up to the next multiple of the structural alignment (and is the running
\* offset when that is a multiple already); stated for the structures
\* without field options to which the host gave the repr(C) layout of
\* their declared types.
C2_StructExpectedSizeRoundsUp ==
    (/\ kind = "struct"
     /\ Verified
     /\ \A k \in 1..Len(input) : input[k].attrs = <<>>
     /\ gt = ReprCLayout(DeclaredTypes)) =>
        expected.size = RoundedUp(current_offset, expected.alignment)

\* The maximum alignment of the declared types of the fields, 1 without fields
MaxAnchorAlignment == SetMax({1} \cup {align_of(Anchor(k)) : k \in 1..Len(fields)})

\* The maximum alignment() of the descriptors the fields expose, 1 without fields
MaxExposedAlignment == SetMax({1} \cup {FieldAlignment(fields[k]) : k \in 1..Len(fields)})

\* C3 as stated: the expected alignment of a structure is the maximum
\* alignment of the declared types of its fields, 1 without fields.
C3_StructAlignmentOfAnchors ==
    (kind = "struct" /\ Verified) => expected.alignment = MaxAnchorAlignment

\* C3, amended: the expected alignment of a structure is the maximum of
\* alignment() over the descriptors of the types its fields expose (after
\* assume_repr and opaque_array), and 1 without fields.
C3_StructAlignmentOfExposed ==
    (kind = "struct" /\ Verified) => expected.alignment = MaxExposedAlignment

\* A verified structure of several fields in which assume_repr exposes a
\* type of another alignment than the declared one
C3_Witness ==
    /\ kind = "struct"
    /\ Verified
    /\ Len(fields) >= 2
    /\ MaxExposedAlignment # MaxAnchorAlignment
    /\ expected.alignment > 1

\* C4: the verifier is unconditional.  A host size that differs from the
\* expected size ends the evaluation with "Mismatched size"; a host
\* alignment that differs from the expected alignment ends it too, with
\* "Mismatched alignments" unless the size comparison, which comes first,
\* has already reported; and a descriptor that exists agrees with the
\* expectation in size and in alignment.  For structures and unions.
C4_VerifierUnconditional ==
    Verified =>
        /\ gt.size # expected.size =>
              (pc = "error" /\ outcome = "Mismatched size" /\ def = NoLayout)
        /\ gt.alignment # expected.alignment =>
              /\ pc = "error"
              /\ def = NoLayout
              /\ outcome = (IF gt.size # expected.size THEN "Mismatched size"
                            ELSE "Mismatched alignments")
        /\ Accepted => (def = gt /\ def = expected)

\* A structure with fields whose host size is one byte more than expected
\* was refused
C4_Witness ==
    /\ kind = "struct"
    /\ Len(fields) >= 2
    /\ Verified
    /\ gt.size = expected.size + 1
    /\ gt.alignment = expected.alignment
    /\ outcome = "Mismatched size"

\* The padding before the k-th field plus the size of its declared type,
\* summed over the first k fields
RECURSIVE PaddingAndSizes(_)
PaddingAndSizes(k) ==
    IF k = 0 THEN 0
    ELSE PaddingAndSizes(k - 1) + (fields[k].offset - EndOf(k - 1)) + size_of(Anchor(k))

\* C5: the size of an accepted structure descriptor is the sum over its
\* fields of the padding before the field and the size of the field's
\* declared type, plus a trailing padding smaller than the alignment; and
\* the size is a multiple of the alignment.
C5_StructSizeIsSum ==
    (kind = "struct" /\ Accepted) =>
        LET trailing == def.size - PaddingAndSizes(Len(fields)) IN
        /\ \A k \in 1..Len(fields) : fields[k].offset - EndOf(k - 1) >= 0
        /\ trailing >= 0
        /\ trailing < def.alignment
        /\ def.size % def.alignment = 0

\* An accepted structure with padding between its fields and after them
C5_Witness ==
    /\ kind = "struct"
    /\ Accepted
    /\ Len(fields) = 3
    /\ fields[2].offset > EndOf(1)
    /\ def.size > PaddingAndSizes(3)

\* The byte ranges [o1, o1 + s1) and [o2, o2 + s2) share no byte
Disjoint(o1, s1, o2, s2) == o1 + s1 <= o2 \/ o2 + s2 <= o1 \/ s1 = 0 \/ s2 = 0

\* C6 as stated: in an accepted structure descriptor every field ends, by
\* the size of the type it reports, within the structure, and the ranges
\* of two fields, by the sizes of the types they report, do not overlap;
\* also with assume_repr and opaque_array.
C6_ReportedFieldsWithinStruct ==
    (kind = "struct" /\ Accepted) =>
        /\ \A k \in 1..Len(fields) : fields[k].offset + FieldSize(fields[k]) <= def.size
        /\ \A j, k \in 1..Len(fields) :
              j < k => Disjoint(fields[j].offset, FieldSize(fields[j]),
                                fields[k].offset, FieldSize(fields[k]))

\* C6, amended: in an accepted structure descriptor every field ends, by
\* the size of its declared type, within the structure, and the ranges of
\* two fields, by the sizes of their declared types, do not overlap; a
\* field without options reports its declared type, so for it this is the
\* size of the reported type.
C6_DeclaredFieldsWithinStruct ==
    (kind = "struct" /\ Accepted) =>
        /\ \A k \in 1..Len(fields) :
              /\ fields[k].offset + size_of(Anchor(k)) <= def.size
              /\ parse_attrs(input[k].attrs) = DefaultOptions =>
                    /\ fields[k].value_type = Anchor(k)
                    /\ FieldSize(fields[k]) = size_of(Anchor(k))
        /\ \A j, k \in 1..Len(fields) :
              j < k => Disjoint(fields[j].offset, size_of(Anchor(j)),
                                fields[k].offset, size_of(Anchor(k)))

\* An accepted structure whose first field reports, by assume_repr, a type
\* that reaches into the second field, and whose last field is an opaque
\* array reported past the end of the structure
C6_Witness ==
    /\ kind = "struct"
    /\ Accepted
    /\ Len(fields) = 3
    /\ fields[1].offset + FieldSize(fields[1]) > fields[2].offset
    /\ size_of(Anchor(2)) > 0
    /\ parse_attrs(input[3].attrs).opaque_array
    /\ fields[3].offset + FieldSize(fields[3]) > def.size

\* C7: in a structure the k-th emitted field, in declaration order, has
\* index k (counting from 0), a named field carries Some(name), a tuple
\* field carries no name, and offsets do not decrease with the index.
C7_IndexNameOrder ==
    kind = "struct" =>
        /\ \A k \in 1..Len(fields) :
              /\ fields[k].index = k - 1
              /\ style = "named" => fields[k].name = SomeIdent(FieldNames[k])
              /\ style = "tuple" => fields[k].name = NoIdent
        /\ \A j, k \in 1..Len(fields) : j < k => fields[j].offset <= fields[k].offset

\* An accepted tuple structure of three fields, the offsets of the first
\* two equal and the third larger
C7_Witness ==
    /\ kind = "struct"
    /\ style = "tuple"
    /\ Accepted
    /\ Len(fields) = 3
    /\ fields[1].offset = fields[2].offset
    /\ fields[2].offset < fields[3].offset

\* The maximum size of the declared types of the fields, 0 without fields
MaxAnchorSize == SetMax({0} \cup {size_of(Anchor(k)) : k \in 1..Len(fields)})

\* The maximum size() of the descriptors the fields expose, 0 without fields
MaxExposedSize == SetMax({0} \cup {FieldSize(fields[k]) : k \in 1..Len(fields)})

\* C8 as stated: the expected alignment of a union is the maximum alignment
\* of the declared types of its fields, and its expected size the maximum
\* size of the declared types rounded up to that alignment.
C8_UnionExpectedOfAnchors ==
    (kind = "union" /\ Verified) =>
        /\ expected.alignment = MaxAnchorAlignment
        /\ expected.size = RoundedUp(MaxAnchorSize, MaxAnchorAlignment)

\* C8, amended: the expected alignment of a union is the maximum of
\* alignment() over the descriptors of the types its fields expose (after
\* assume_repr), and its expected size the maximum of size() over the same
\* descriptors rounded up to that alignment; 1 and 0 without fields.
C8_UnionExpectedOfExposed ==
    (kind = "union" /\ Verified) =>
        /\ expected.alignment = MaxExposedAlignment
        /\ expected.size = RoundedUp(MaxExposedSize, MaxExposedAlignment)

\* A verified union where the largest exposed size is no multiple of the
\* largest exposed alignment, and neither is that of the declared types
C8_Witness ==
    /\ kind = "union"
    /\ Verified
    /\ Len(fields) = 3
    /\ MaxExposedSize % MaxExposedAlignment # 0
    /\ MaxExposedSize # MaxAnchorSize
    /\ expected.size > MaxExposedSize

\* C9: the size of an accepted union descriptor is at least the size of
\* the type every field reports and is a multiple of the alignment; every
\* field is at offset 0.
C9_UnionSizeCoversFields ==
    (kind = "union" /\ Accepted) =>
        /\ \A k \in 1..Len(fields) :
              /\ def.size >= FieldSize(fields[k])
              /\ fields[k].offset = 0
        /\ def.size % def.alignment = 0

\* An accepted union of fields of different sizes, larger than all of them
C9_Witness ==
    /\ kind = "union"
    /\ Accepted
    /\ Len(fields) = 3
    /\ FieldSize(fields[1]) < FieldSize(fields[2])
    /\ FieldSize(fields[3]) < FieldSize(fields[2])
    /\ def.size > MaxExposedSize

\* C10: a structure or union without fields has expected size 0 and
\* expected alignment 1, and is accepted exactly when the host reports
\* size 0 and alignment 1.
C10_ZeroFields ==
    (Verified /\ nfields = 0) =>
        /\ expected = Layout(0, 1)
        /\ Accepted <=> gt = Layout(0, 1)

\* A union without fields was accepted
C10_Witness ==
    /\ kind = "union"
    /\ nfields = 0
    /\ Accepted
    /\ def = Layout(0, 1)

\* The options the derive extracts for the k-th field of the input
Options(k) == parse_attrs(input[k].attrs)

\* The derivation ended with an error and nothing was produced
NothingProduced == pc = "error" /\ def = NoLayout /\ type_info = NoTypeInfo

\* C11: a structure field whose options have opaque_array ends the
\* derivation with a configuration error, and without a layout, unless it
\* is the last field of the structure and its declared type is a
\* fixed-length array; a last field that is an array is emitted.
C11_OpaqueArrayMisapplied ==
    kind = "struct" =>
        \A k \in 1..Len(input) :
            (Options(k).ok /\ Options(k).opaque_array) =>
                IF k = nfields /\ IsArray(input[k].ty)
                THEN Len(fields) = k
                ELSE /\ NothingProduced
                     /\ Len(fields) = k - 1
                     /\ outcome = (IF k # nfields THEN "Opaque array must be last field"
                                   ELSE "Type must be an array to be marked 'opaque_array'")

\* A structure whose second of three fields is an opaque array
C11_Witness ==
    /\ kind = "struct"
    /\ nfields = 3
    /\ Len(input) = 2
    /\ Options(2).opaque_array
    /\ IsArray(input[2].ty)
    /\ outcome = "Opaque array must be last field"

\* Some reflect or static_reflect attribute among attrs has the flag f
HasFlag(attrs, f) ==
    \E i \in 1..Len(attrs) :
        /\ attrs[i].path \in {"reflect", "static_reflect"}
        /\ \E j \in 1..Len(attrs[i].flags) : attrs[i].flags[j].flag = f

\* C12: a field on which both opaque_array and assume_repr are specified,
\* in one attribute or over several reflect / static_reflect attributes,
\* ends the derivation with the error of the option extraction and without
\* a layout.
C12_BothOptionsRejected ==
    kind \in {"struct", "union"} =>
        \A k \in 1..Len(input) :
            (HasFlag(input[k].attrs, "opaque_array") /\ HasFlag(input[k].attrs, "assume_repr")) =>
                /\ NothingProduced
                /\ outcome = "opaque_array is incompatible with assume_repr"
                /\ Len(fields) = k - 1

\* C13: a union field whose options have opaque_array ends the derivation
\* with a configuration error and without a layout, whatever its position
\* and its type.
C13_UnionOpaqueArray ==
    kind = "union" =>
        \A k \in 1..Len(input) :
            (Options(k).ok /\ Options(k).opaque_array) =>
                /\ NothingProduced
                /\ Len(fields) = k - 1
                /\ outcome = "opaque_array is not supported on unions"

\* A union whose last field is an opaque array, after a field that was
\* emitted
C13_Witness ==
    /\ kind = "union"
    /\ nfields = 2
    /\ Len(input) = 2
    /\ Len(fields) = 1
    /\ Options(2).opaque_array
    /\ IsArray(input[2].ty)
    /\ outcome = "opaque_array is not supported on unions"

\* C14: a trailing array field [T; N] with opaque_array is emitted with
\* the element type T, at the running offset padded to the alignment of
\* the array type; the running offset advances by the size of the whole
\* array, N * size(T), and the expected size is counted from there.
C14_OpaqueArrayLayout ==
    kind = "struct" =>
        \A k \in 1..Len(fields) :
            Options(k).opaque_array =>
                LET T == Ty(input[k].ty.base)
                    N == input[k].ty.len
                IN /\ k = nfields
                   /\ fields[k].value_type = T
                   /\ fields[k].offset = RoundedUp(EndOf(k - 1), align_of(input[k].ty))
                   /\ current_offset = fields[k].offset + N * size_of(T)
                   /\ Verified =>
                         /\ expected.size >= fields[k].offset + N * size_of(T)
                         /\ expected.size < fields[k].offset + N * size_of(T) + gt.alignment

\* An accepted structure that ends in an opaque array of three elements
\* placed after other fields
C14_Witness ==
    /\ kind = "struct"
    /\ Accepted
    /\ Len(fields) = 3
    /\ Options(3).opaque_array
    /\ input[3].ty = Arr("u8", 3)
    /\ fields[3].value_type = Ty("u8")
    /\ fields[3].offset > 0
    /\ def.size >= fields[3].offset + 3

\* The types given to assume_repr in the structures compared
Substitutes == {Ty("i8"), Ty("u16"), Ty("u64"), Ty("Triple"), Ty("Nested")}

\* The input with the type t given to the assume_repr of its k-th field
WithSubstitute(k, t) == [input EXCEPT ![k].attrs = <<AssumeReprAttr(t)>>]

\* C15: a field with assume_repr is emitted with the substitute type, and
\* the offsets use the declared type: a structure that differs from the
\* derived one only in the type given to assume_repr has the same offset
\* for every field, the same final running offset and so the same
\* expected size on every host.  Stated of the fields handle_fields has
\* handed over when it returns.
C15_AssumeReprKeepsOffsets ==
    (kind = "struct" /\ pc = "fields" /\ Len(fields) = nfields) =>
        \A k \in 1..nfields :
            (\E t \in Substitutes : input[k].attrs = <<AssumeReprAttr(t)>>) =>
                /\ fields[k].value_type = Options(k).assume_repr
                /\ \A t \in Substitutes :
                      LET other == StructHandleFields(WithSubstitute(k, t)) IN
                      /\ other.ok
                      /\ other.fields[k].value_type = t
                      /\ \A j \in 1..nfields : other.fields[j].offset = fields[j].offset
                      /\ other.current_offset = current_offset
                      /\ \A a \in HostAlignments :
                            StructExpectedSize(other.current_offset, a)
                                = StructExpectedSize(current_offset, a)

\* A structure whose first field, a u8, is reported as a type of three
\* bytes while the second field is at offset 1
C15_Witness ==
    /\ kind = "struct"
    /\ pc = "fields"
    /\ nfields = 3
    /\ Len(fields) = 3
    /\ input[1] = Field(Decl(Ty("u8"), <<AssumeReprAttr(Ty("Triple"))>>), 0)
    /\ fields[1].value_type = Ty("Triple")
    /\ fields[2].offset = 1
    /\ fields[3].offset > 1

\* DiscriminantValue::Default, ImplicitlyOffset and ExplicitInteger
Discriminant(tag, n) == [tag |-> tag, n |-> n]

\* The discriminants of the variants vs by the left-to-right rule, from
\* the i-th variant on: seen tells whether an earlier variant had a
\* literal, last is the value of the variant before
RECURSIVE ResolveFrom(_, _, _, _)
ResolveFrom(vs, i, seen, last) ==
    IF i > Len(vs) THEN <<>>
    ELSE IF vs[i].literal # NoLiteral
         THEN <<Discriminant("ExplicitInteger", vs[i].literal)>>
                  \o ResolveFrom(vs, i + 1, TRUE, vs[i].literal)
    ELSE IF ~seen
         THEN <<Discriminant("Default", i - 1)>> \o ResolveFrom(vs, i + 1, FALSE, i - 1)
    ELSE <<Discriminant("ImplicitlyOffset", last + 1)>> \o ResolveFrom(vs, i + 1, TRUE, last + 1)

\* The discriminants of the variants a descriptor lists, none if it lists
\* no variants
VariantsOf(ti) == IF "variants" \in DOMAIN ti THEN ti.variants ELSE <<>>

\* C16: the derive of a payload-free enum yields a C-style enum descriptor
\* with one variant per declared variant, in declaration order, whose
\* discriminants follow the left-to-right rule (ExplicitInteger for a
\* literal, Default{index} before any literal, ImplicitlyOffset{previous
\* value + 1} after one).
C16_EnumIsCStyleEnum ==
    (kind = "enum" /\ Accepted) =>
        /\ type_info.kind = "CStyleEnum"
        /\ VariantsOf(type_info) = ResolveFrom(variants, 1, FALSE, 0)

EnumDone == kind = "enum" /\ pc \in {"done", "error"}

\* Some variant of the enum carries data
HasPayload == \E i \in 1..Len(variants) : variants[i].nfields > 0

\* C18 as stated: an enum with a variant that carries data is rejected
\* with "Complex enums are currently unsupported" and no descriptor is
\* produced.
C18_ComplexEnumsUnsupported ==
    (EnumDone /\ HasPayload) =>
        /\ NothingProduced
        /\ outcome = "Complex enums are currently unsupported"

\* C18, amended: an enum with a variant that carries data is rejected and
\* no descriptor is produced; the error is "Complex enums are currently
\* unsupported" when the repr of the enum is C or an integer, and the error
\* about the repr, which is looked at first, otherwise.  Variants with an
\* empty field list count as payload-free.
C18_ComplexEnumsRejected ==
    EnumDone =>
        /\ HasPayload =>
              /\ NothingProduced
              /\ repr_items \in {<<"C">>, <<"u8">>, <<"i32">>} =>
                    outcome = "Complex enums are currently unsupported"
              /\ repr_items \in {<<>>, <<"transparent">>} =>
                    outcome = "Enum types must be either #[repr(C)] or #[repr(Int)]"
              /\ repr_items = <<"C", "u8">> =>
                    outcome = "Encountered multiple repr(...) attributes"
              /\ repr_items = <<"packed">> => outcome = "Unknown #[repr])"
        /\ (~HasPayload /\ repr_items \in {<<"C">>, <<"u8">>, <<"i32">>}) => Accepted

\* A repr(C) enum with a variant that carries data, after a variant with an
\* empty field list, was rejected as complex
C18_Witness ==
    /\ EnumDone
    /\ repr_items = <<"C">>
    /\ Len(variants) = 2
    /\ variants[1] = Variant("named", 0, NoLiteral)
    /\ variants[2].nfields > 0
    /\ outcome = "Complex enums are currently unsupported"

\* The errors about field options
ConfigurationErrors ==
    {"Opaque array must be last field",
     "Type must be an array to be marked 'opaque_array'",
     "opaque_array is not supported on unions",
     "opaque_array is incompatible with assume_repr",
     "Invalid flag"}

\* C20 as stated: when a configuration error of a structure or union is
\* raised, no field has been handed to the field handler and no offset
\* computed.
C20_ConfigErrorsBeforeSimulation ==
    (pc = "error" /\ outcome \in ConfigurationErrors) =>
        (fields = <<>> /\ current_offset = 0)

\* C20, amended: a configuration error of a structure or union is raised
\* when the loop over the fields reaches the offending field, before that
\* field is given an offset or handed to the field handler and before any
\* definition is evaluated; the fields declared before it have been
\* handed over, with their offsets.
C20_ConfigErrorsAtOffendingField ==
    (pc = "error" /\ outcome \in ConfigurationErrors) =>
        /\ kind \in {"struct", "union"}
        /\ Len(input) >= 1
        /\ Len(fields) = Len(input) - 1
        /\ \A k \in 1..Len(fields) : Options(k).ok /\ fields[k].index = k - 1
        /\ kind = "struct" => current_offset = EndOf(Len(fields))
        /\ gt = NoLayout /\ expected = NoLayout
        /\ def = NoLayout /\ type_info = NoTypeInfo

\* A structure whose third field has an unknown flag, after two fields
\* that were handed over
C20_Witness ==
    /\ kind = "struct"
    /\ pc = "error"
    /\ outcome = "Invalid flag"
    /\ Len(input) = 3
    /\ Len(fields) = 2
    /\ current_offset > 0

\* C27: in the structure and in the union verifier the size comparison
\* precedes the alignment comparison: a host layout that disagrees with the
\* simulation in size and in alignment is refused with "Mismatched size",
\* and "Mismatched alignments" is raised only when the sizes agree and the
\* alignments do not.
C27_SizeBeforeAlignment ==
    Verified =>
        /\ (gt.size # expected.size /\ gt.alignment # expected.alignment) =>
              (pc = "error" /\ outcome = "Mismatched size")
        /\ outcome = "Mismatched alignments" =>
              (gt.size = expected.size /\ gt.alignment # expected.alignment)
        /\ outcome \in {"Mismatched size", "Mismatched alignments", "descriptor"}

\* A union with fields that the host lays out with another size and another
\* alignment than the simulation expects
C27_Witness ==
    /\ kind = "union"
    /\ Len(fields) >= 2
    /\ Verified
    /\ gt.size # expected.size
    /\ gt.alignment # expected.alignment
    /\ outcome = "Mismatched size"

\* C26: a structure without field options to which the host gave the size
\* and alignment the repr(C) rules assign to its declared types (every
\* field at the next multiple of its alignment, the alignment the largest
\* of the fields', the size rounded up to it) is accepted by the verifier
\* and its descriptor produced, trailing padding or not.
C26_ReprCStructsAccepted ==
    (/\ kind = "struct"
     /\ Verified
     /\ \A k \in 1..Len(input) : input[k].attrs = <<>>
     /\ gt = ReprCLayout(DeclaredTypes)) =>
        /\ Accepted
        /\ pc = "done"
        /\ def = gt
        /\ type_info = def_into_type("struct", gt)

\* The input carries repr(C) and no other repr item
MarkedReprC == repr_items = <<"C">>

\* The input carries one repr item that names a fixed-width integer
MarkedReprInteger == Len(repr_items) = 1 /\ repr_items[1] \in IntegerReprNames

\* C25: the derive of a structure or union that is not marked repr(C) ends
\* with an error before any field is looked at and produces no descriptor;
\* the derive of an enum whose repr is neither C nor a fixed-width integer
\* (no repr, several repr items, another repr) ends with an error and
\* produces no descriptor either.
C25_ReprRequired ==
    /\ (kind \in {"struct", "union"} /\ ~MarkedReprC /\ pc # "start") =>
          /\ NothingProduced
          /\ input = <<>> /\ fields = <<>> /\ gt = NoLayout
          /\ outcome \in {"StaticReflect requires repr(C)",
                          "Encountered multiple repr(...) attributes", "Unknown #[repr])"}
    /\ (kind = "enum" /\ ~MarkedReprC /\ ~MarkedReprInteger /\ pc # "start") =>
          /\ pc # "done"
          /\ def = NoLayout /\ type_info = NoTypeInfo
          /\ pc = "error" =>
                outcome \in {"Enum types must be either #[repr(C)] or #[repr(Int)]",
                             "Encountered multiple repr(...) attributes", "Unknown #[repr])"}
    /\ (kind = "enum" /\ (MarkedReprC \/ MarkedReprInteger) /\ pc # "start") =>
          outcome \notin {"Enum types must be either #[repr(C)] or #[repr(Int)]",
                          "Encountered multiple repr(...) attributes", "Unknown #[repr])"}

\* A payload-free enum of several variants without a repr attribute was
\* refused
C25_Witness ==
    /\ kind = "enum"
    /\ repr_items = <<>>
    /\ Len(variants) = 2
    /\ is_c_style_enum(variants)
    /\ pc = "error"
    /\ outcome = "Enum types must be either #[repr(C)] or #[repr(Int)]"

\* The construction has ended
Ended == pc \in {"done", "error"}

\* The errors about an input the derive does not handle: an enum variant
\* that carries data, a repr the derive does not accept, a field type that
\* has no descriptor
UnsupportedShapeErrors ==
    {"Complex enums are currently unsupported",
     "Enum types must be either #[repr(C)] or #[repr(Int)]",
     "StaticReflect requires repr(C)",
     "Encountered multiple repr(...) attributes",
     "Unknown #[repr])",
     "StaticReflect is not implemented"}

\* The errors of the verifier
LayoutMismatchErrors == {"Mismatched size", "Mismatched alignments"}

\* What is left to do: the steps the construction can still take
Remaining ==
    CASE pc = "start" -> nfields + 2
      [] pc = "enum" -> 1
      [] pc = "fields" -> (nfields - Len(input)) + 1
      [] OTHER -> 0

\* The construction is in one of its two final states, or in neither
OneOutcome ==
    /\ pc = "done" =>
          /\ outcome = "descriptor"
          /\ type_info # NoTypeInfo
          /\ kind \in {"struct", "union"} =>
                (def # NoLayout /\ Len(input) = nfields /\ Len(fields) = nfields)
    /\ pc = "error" =>
          /\ outcome \in ConfigurationErrors \cup UnsupportedShapeErrors \cup LayoutMismatchErrors
          /\ def = NoLayout
          /\ type_info = NoTypeInfo
    /\ ~Ended => (outcome = "none" /\ def = NoLayout /\ type_info = NoTypeInfo)
    /\ Len(input) <= nfields
    /\ Remaining \in 0..(nfields + 2)
    /\ Ended <=> Remaining = 0

\* A step visits at most one field, the next one in declaration order,
\* leaves less to do, and is no step of a construction that has ended
VisitsOnce ==
    /\ ~Ended
    /\ Remaining' < Remaining
    /\ \/ input' = input
       \/ /\ Len(input') = Len(input) + 1
          /\ SubSeq(input', 1, Len(input)) = input

\* C21: the construction terminates after visiting each field once, and
\* ends in exactly one of two outcomes: a descriptor, or one error (a
\* configuration error, an unsupported shape, a layout mismatch) and no
\* descriptor, complete or partial.  Termination: a construction that has
\* not ended can take a step, and every step leaves less to do, of at most
\* two steps more than there are fields.
C21_TerminatesWithOneOutcome ==
    /\ []OneOutcome
    /\ [][VisitsOnce]_vars
    /\ [](Ended \/ ENABLED Next)

\* A structure of three fields was refused by the verifier after all three
\* had been visited
C21_Witness ==
    /\ kind = "struct"
    /\ pc = "error"
    /\ nfields = 3
    /\ Len(input) = 3
    /\ Len(fields) = 3
    /\ outcome = "Mismatched alignments"
    /\ def = NoLayout
    /\ type_info = NoTypeInfo

\* The types whose descriptors the descriptors of the types in S hold; the
\* derived type holds those of the types its fields expose
HeldBy(S) ==
    UNION {IF b = "Self" THEN {fields[k].value_type.base : k \in 1..Len(fields)}
           ELSE Referenced(b) : b \in S}

\* The types whose descriptors are reached from those of the types in S in
\* at most n steps
RECURSIVE ReachedFrom(_, _)
ReachedFrom(S, n) == IF n = 0 THEN S ELSE ReachedFrom(S \cup HeldBy(S), n - 1)

\* The layout a C compiler gives to the derived type: the repr(C) layout
\* of a structure, the largest field rounded up to the largest alignment
\* for a union
HostCLayout ==
    IF kind = "struct" THEN ReprCLayout(DeclaredTypes)
    ELSE Layout(RoundedUp(MaxAnchorSize, MaxAnchorAlignment), MaxAnchorAlignment)

\* C24: every field of a pointer type is described by the one Pointer
\* descriptor, whatever it points to, and that descriptor holds no
\* descriptor of the pointee; so no descriptor reached from the derived
\* type holds the derived type's own, also when a field points to the
\* derived type or to a structure that contains it, and the construction
\* of such a type succeeds as that of any other type of its layout
\* (stated for the types that end without trailing padding).
C24_PointersAreOpaque ==
    /\ \A k \in 1..Len(fields) :
          input[k].ty.base \in PointerBases =>
              /\ fields[k].value_type = input[k].ty
              /\ TYPE_INFO(fields[k].value_type) = TYPE_INFO(Ty("ptr"))
              /\ TYPE_INFO(fields[k].value_type).kind = "Pointer"
              /\ Referenced(fields[k].value_type.base) = {}
              /\ FieldSize(fields[k]) = size_of(input[k].ty)
              /\ FieldAlignment(fields[k]) = align_of(input[k].ty)
    /\ "Self" \notin ReachedFrom(HeldBy({"Self"}), 3)
    /\ (/\ Verified
        /\ gt = HostCLayout
        /\ kind = "struct" => current_offset % gt.alignment = 0) => Accepted

\* An accepted structure with a pointer to itself and a pointer to a
\* structure that contains it
C24_Witness ==
    /\ kind = "struct"
    /\ Accepted
    /\ Len(fields) = 2
    /\ input[1].ty = Ty("ptrSelf")
    /\ input[2].ty = Ty("ptrOuter")
    /\ def = Layout(16, 8)

(***************************************************************************)
(* Descriptors at run time: the functions of src/types.rs a consumer calls *)
(* on a primitive type, on a TypeInfo and on the definition of a C-style   *)
(* enum.  One behaviour is a series of calls on one value.                 *)
(***************************************************************************)
\* A PrimitiveType: Unit, Never, Bool, Pointer, Integer(IntType) or
\* Float { size }
PT(k, bytes, signed) == [kind |-> k, bytes |-> bytes, signed |-> signed]

PrimitiveTypes ==
    {PT(k, 0, FALSE) : k \in {"Unit", "Never", "Bool", "Pointer"}}
        \cup {PT("Integer", b, sg) : b \in {1, 2, 4, 8}, sg \in BOOLEAN}
        \cup {PT("Float", b, FALSE) : b \in {4, 8}}

\* PrimitiveType::type_info
PrimitiveType_type_info(p) ==
    CASE p.kind = "Unit" -> TI("Unit", 0, FALSE, 0, 0)
      [] p.kind = "Never" -> TI("Never", 0, FALSE, 0, 0)
      [] p.kind = "Bool" -> TI("Bool", 0, FALSE, 0, 0)
      [] p.kind = "Pointer" -> TI("Pointer", 0, FALSE, 0, 0)
      [] p.kind = "Integer" /\ p.signed -> TI("Integer", p.bytes, FALSE, 0, 0)
      [] p.kind = "Integer" /\ ~p.signed -> TI("Integer", p.bytes, TRUE, 0, 0)
      [] p.kind = "Float" -> TI("Float", p.bytes, FALSE, 0, 0)

\* PrimitiveType::bytes
PrimitiveType_bytes(p) ==
    CASE p.kind \in {"Unit", "Never"} -> 0
      [] p.kind = "Integer" -> p.bytes
      [] p.kind = "Float" -> p.bytes
      [] p.kind = "Pointer" -> 8
      [] p.kind = "Bool" -> 1

\* Some(p) and None of Option<PrimitiveType>
SomePrimitive(p) == [some |-> TRUE, value |-> p]

NoPrimitive == [some |-> FALSE, value |-> PT("none", 0, FALSE)]

\* TypeId::primitive of the TypeId of the descriptor ti
TypeId_primitive(ti) ==
    CASE ti.kind \in {"Unit", "Never", "Bool", "Pointer"} -> SomePrimitive(PT(ti.kind, 0, FALSE))
      [] ti.kind = "Integer" -> SomePrimitive(PT("Integer", ti.bytes, ti.signed))
      [] ti.kind = "Float" -> SomePrimitive(PT("Float", ti.bytes, FALSE))
      [] OTHER -> NoPrimitive

\* The descriptors a consumer may be handed: one of every variant of
\* TypeInfo, the definitions of structures and unions with the layouts a
\* host may give them
TypeInfos ==
    {TI(k, 0, FALSE, 0, 0) :
        k \in {"Unit", "Never", "Bool", "Pointer", "Slice", "Str", "Optional", "Extern", "Magic"}}
        \cup {TI(k, b, sg, 0, 0) : k \in {"Integer", "CStyleEnum"}, b \in {1, 2, 4, 8}, sg \in BOOLEAN}
        \cup {TI("Float", b, FALSE, 0, 0) : b \in {4, 8}}
        \cup {TI(k, 0, FALSE, g.size, g.alignment) :
                 k \in {"Structure", "UntaggedUnion", "TaggedUnion"}, g \in GroundTruths}

\* A CStyleEnumVariant: its index and its discriminant
CStyleEnumVariant(index, discriminant) == [index |-> index, discriminant |-> discriminant]

\* The variants of the definition of the enum declared with the variants
\* vs: Default carries the declaration index, a literal is an
\* ExplicitInteger, and a variant after a literal is ImplicitlyOffset
CStyleEnumVariants(vs) ==
    [i \in 1..Len(vs) |-> CStyleEnumVariant(i - 1, ResolveFrom(vs, 1, FALSE, 0)[i])]

\* The definitions of the C-style enums of up to MaxVariants variants
CStyleEnumDefs ==
    {CStyleEnumVariants(vs) :
        vs \in UNION {SeqsOfLen({v \in VariantChoices : v.nfields = 0}, n) : n \in 1..MaxVariants}}

\* DiscriminantValue::is_explicit that never matches
is_explicit_Never(d) == FALSE

\* DiscriminantValue::is_explicit
is_explicit(d) == d.tag = "ExplicitInteger"

\* CStyleEnumDef::has_explicit_discriminants
has_explicit_discriminants(d) == \E i \in 1..Len(d) : is_explicit(d[i].discriminant)

\* DiscriminantValue::bits
bits(d) ==
    CASE d.tag = "Default" -> d.n
      [] d.tag \in {"ImplicitlyOffset", "ExplicitInteger"} -> d.n

\* The value with what the calls on it have returned so far
Subject(what, value) == [what |-> what, value |-> value]

\* The call of the given name has returned
Called(name) == name \in DOMAIN returned

\* The call of the given name returns v
Returns(name, v) ==
    /\ ~Called(name)
    /\ returned' = (name :> v) @@ returned
    /\ UNCHANGED subject
    /\ UNCHANGED derive_vars

TypesInit ==
    /\ kind = "none"
    /\ style = "named"
    /\ nfields = 0
    /\ repr_items = <<>>
    /\ variants = <<>>
    /\ type_info = NoTypeInfo
    /\ input = <<>>
    /\ pc = "call"
    /\ fields = <<>>
    /\ current_offset = 0
    /\ gt = NoLayout
    /\ expected = NoLayout
    /\ def = NoLayout
    /\ outcome = "none"
    /\ subject \in {Subject("PrimitiveType", p) : p \in PrimitiveTypes}
                      \cup {Subject("TypeInfo", ti) : ti \in TypeInfos}
                      \cup {Subject("CStyleEnumDef", d) : d \in CStyleEnumDefs}
    /\ returned = NotCalled

\* p.type_info()
Call_type_info ==
    /\ subject.what = "PrimitiveType"
    /\ Returns("type_info", PrimitiveType_type_info(subject.value))

\* p.bytes()
Call_bytes ==
    /\ subject.what = "PrimitiveType"
    /\ Returns("bytes", PrimitiveType_bytes(subject.value))

\* TypeId::from_static(p.type_info()).primitive()
Call_primitive ==
    /\ subject.what = "PrimitiveType"
    /\ Called("type_info")
    /\ Returns("primitive", TypeId_primitive(returned["type_info"]))

\* p.type_info().size()
Call_size ==
    /\ subject.what = "PrimitiveType"
    /\ Called("type_info")
    /\ Returns("size", TypeInfoSize(returned["type_info"]))

\* info.alignment()
Call_alignment ==
    /\ subject.what = "TypeInfo"
    /\ Returns("alignment", TypeInfoAlignment(subject.value))

\* def.has_explicit_discriminants()
Call_has_explicit_discriminants ==
    /\ subject.what = "CStyleEnumDef"
    /\ Returns("has_explicit_discriminants", has_explicit_discriminants(subject.value))

\* variant.discriminant.bits() of every variant of def
Call_bits ==
    /\ subject.what = "CStyleEnumDef"
    /\ Returns("bits", [i \in 1..Len(subject.value) |-> bits(subject.value[i].discriminant)])

TypesNext ==
    \/ Call_type_info
    \/ Call_bytes
    \/ Call_primitive
    \/ Call_size
    \/ Call_alignment
    \/ Call_has_explicit_discriminants
    \/ Call_bits

TypesSpec == TypesInit /\ [][TypesNext]_vars

\* C28: for every PrimitiveType p, p.type_info() describes p: converted
\* back by TypeId::primitive it gives Some(p), so the size and the
\* signedness of an integer survive the round trip, and the size() of the
\* descriptor is p.bytes().
C28_PrimitiveRoundTrip ==
    subject.what = "PrimitiveType" =>
        /\ Called("primitive") => returned["primitive"] = SomePrimitive(subject.value)
        /\ (Called("size") /\ Called("bytes")) => returned["size"] = returned["bytes"]

\* The alignments a host assigns: the positive powers of two
PowersOfTwo == {1, 2, 4, 8, 16}

\* C29: for every variant of TypeInfo, alignment() returns the alignment
\* the host gives the described type, a positive power of two and never 0,
\* so that offset % alignment() is defined.
C29_AlignmentIsPositive ==
    (subject.what = "TypeInfo" /\ Called("alignment")) =>
        /\ returned["alignment"] # Unimplemented
        /\ returned["alignment"] # 0
        /\ returned["alignment"] \in PowersOfTwo

\* C30: in the definition of a C-style enum for which
\* has_explicit_discriminants() is false, bits() of the discriminant of
\* every variant is the index of the variant.  Stated of the definitions
\* of enums: Default carries the index of its variant and ImplicitlyOffset
\* occurs only after an ExplicitInteger, as DiscriminantValue documents.
C30_ImplicitDiscriminantsAreIndexes ==
    (/\ subject.what = "CStyleEnumDef"
     /\ Called("has_explicit_discriminants")
     /\ Called("bits")
     /\ ~returned["has_explicit_discriminants"]) =>
        \A i \in 1..Len(subject.value) : returned["bits"][i] = subject.value[i].index

\* An enum of three variants without a literal, whose discriminants are
\* 0, 1 and 2
C30_Witness ==
    /\ subject.what = "CStyleEnumDef"
    /\ Len(subject.value) = 3
    /\ Called("has_explicit_discriminants")
    /\ ~returned["has_explicit_discriminants"]
    /\ Called("bits")
    /\ returned["bits"] = <<0, 1, 2>>

(***************************************************************************)
(* Function declarations: the reflect_func attribute                       *)
(* (lib/derive/src/lib.rs, lib/derive/src/internals/func.rs).  One         *)
(* behaviour is one expansion of the attribute on an item.                 *)
(***************************************************************************)
\* Largest number of attributes of a function
MaxAttrs == 2

\* Largest number of items of a foreign block
MaxItems == 2

\* const FUNC_ATTR_NAME
FUNC_ATTR_NAME == "reflect_func"

\* The value of a name-value attribute that is no string literal
NotAString == [str |-> FALSE, value |-> ""]

\* Lit::Str
LitStr(s) == [str |-> TRUE, value |-> s]

\* An attribute: Meta::Path (#[path]), Meta::NameValue (#[path = value])
\* or Meta::List (#[path(tokens)])
MetaPath(p) == [meta |-> "Path", path |-> p, value |-> NotAString, tokens |-> <<>>]

MetaNameValue(p, v) == [meta |-> "NameValue", path |-> p, value |-> v, tokens |-> <<>>]

MetaList(p, tokens) == [meta |-> "List", path |-> p, value |-> NotAString, tokens |-> tokens]

\* Option<String>
NoName == [some |-> FALSE, value |-> ""]

SomeName(s) == [some |-> TRUE, value |-> s]

\* Result<FuncArgs, Error>
ArgsOk(absolute) == [ok |-> TRUE, absolute |-> absolute, err |-> ""]

ArgsErr(msg) == [ok |-> FALSE, absolute |-> FALSE, err |-> msg]

\* The `while !input.is_empty()` loop of FuncArgs::parse, from token i on
RECURSIVE FuncArgsParseFrom(_, _, _)
FuncArgsParseFrom(tokens, i, absolute) ==
    IF i > Len(tokens) THEN ArgsOk(absolute)
    ELSE IF tokens[i] = "," THEN ArgsErr("Unexpected token")
    ELSE IF tokens[i] = "absolute" THEN FuncArgsParseFrom(tokens, i + 1, TRUE)
    ELSE ArgsErr("Invalid flag")

\* impl Parse for FuncArgs
FuncArgsParse(tokens) == FuncArgsParseFrom(tokens, 1, FALSE)

\* Result<Option<String>, Error>
NameOk(n) == [ok |-> TRUE, name |-> n, err |-> ""]

NameErr(msg) == [ok |-> FALSE, name |-> NoName, err |-> msg]

\* determine_fn_link_name accepting a function without a link attribute
RECURSIVE determine_fn_link_name_Lenient(_, _)
determine_fn_link_name_Lenient(attrs, i) ==
    IF i > Len(attrs) THEN NameOk(NoName)
    ELSE IF attrs[i].meta = "Path" /\ attrs[i].path = "no_mangle" THEN NameOk(NoName)
    ELSE IF attrs[i].meta = "NameValue" /\ attrs[i].path = "export_name"
         THEN IF attrs[i].value.str THEN NameOk(SomeName(attrs[i].value.value))
              ELSE NameErr("Expected a string for export_name")
    ELSE determine_fn_link_name_Lenient(attrs, i + 1)

\* determine_fn_link_name, from attribute i on
RECURSIVE determine_fn_link_name(_, _)
determine_fn_link_name(attrs, i) ==
    IF i > Len(attrs) THEN NameErr("Function must be #[no_mangle] to support dynamic linking")
    ELSE IF attrs[i].meta = "Path" /\ attrs[i].path = "no_mangle" THEN NameOk(NoName)
    ELSE IF attrs[i].meta = "NameValue" /\ attrs[i].path = "export_name"
         THEN IF attrs[i].value.str THEN NameOk(SomeName(attrs[i].value.value))
              ELSE NameErr("Expected a string for export_name")
    ELSE determine_fn_link_name(attrs, i + 1)

\* determine_foreign_link_name, from attribute i on
RECURSIVE determine_foreign_link_name(_, _)
determine_foreign_link_name(attrs, i) ==
    IF i > Len(attrs) THEN NameOk(NoName)
    ELSE IF attrs[i].meta = "NameValue" /\ attrs[i].path = "link_name"
         THEN IF attrs[i].value.str THEN NameOk(SomeName(attrs[i].value.value))
              ELSE NameErr("Expected a string for #[link_name]")
    ELSE determine_foreign_link_name(attrs, i + 1)

\* FunctionLocation::DynamicallyLinked { link_name } and
\* FunctionLocation::AbsoluteAddress({ name as *const () })
DynamicallyLinked(link_name) == [tag |-> "DynamicallyLinked", link_name |-> link_name, addr |-> ""]

AbsoluteAddress(name) == [tag |-> "AbsoluteAddress", link_name |-> NoName, addr |-> name]

\* FunctionDefOpts
FunctionDefOpts(assume_c_abi, location, is_unsafe) ==
    [assume_c_abi |-> assume_c_abi, location |-> location, is_unsafe |-> is_unsafe]

\* A syn::Signature: the name, the ABI ("" for a bare `extern`, NoAbi
\* without `extern`), `unsafe`, the arguments ("self" is a receiver) and the
\* return type (NoType without one)
NoAbi == "none"

Signature(ident, abi, unsafety, inputs, output) ==
    [ident |-> ident, abi |-> abi, unsafety |-> unsafety, inputs |-> inputs, output |-> output]

\* StaticFunctionDef with its StaticSignatureDef
StaticFunctionDef(name, location, is_unsafe, argument_types, return_type) ==
    [name |-> name, is_unsafe |-> is_unsafe, location |-> location,
     signature |-> [argument_types |-> argument_types, return_type |-> return_type,
                    calling_convention |-> "StandardC"]]

DefOk(d) == [ok |-> TRUE, def |-> d, err |-> ""]

DefErr(msg) ==
    [ok |-> FALSE, err |-> msg,
     def |-> StaticFunctionDef("", DynamicallyLinked(NoName), FALSE, <<>>, NoTypeInfo)]

\* emit_def_from_signature
emit_def_from_signature(sig, opts) ==
    IF ~(sig.abi = "C" \/ (sig.abi \in {NoAbi, ""} /\ opts.assume_c_abi))
    THEN DefErr("Expected C ABI")
    ELSE IF \E i \in 1..Len(sig.inputs) : sig.inputs[i] = "self"
    THEN DefErr("Invalid input")
    ELSE DefOk(StaticFunctionDef(
                   sig.ident, opts.location, opts.is_unsafe,
                   [i \in 1..Len(sig.inputs) |-> TYPE_INFO(Ty(sig.inputs[i]))],
                   IF sig.output = NoType THEN TI("Unit", 0, FALSE, 0, 0)
                   ELSE TYPE_INFO(sig.output)))

\* Result<TokenStream, Error>: the declarations among the tokens
Emitted(decls) == [ok |-> TRUE, decls |-> decls, err |-> ""]

Failed(msg) == [ok |-> FALSE, decls |-> <<>>, err |-> msg]

\* An ItemFn
ItemFn(attrs, sig) == [what |-> "ItemFn", attrs |-> attrs, sig |-> sig]

\* handle_fn_def
handle_fn_def(item, args) ==
    LET name == determine_fn_link_name(item.attrs, 1) IN
    IF ~args.absolute /\ ~name.ok THEN Failed(name.err)
    ELSE LET location == IF args.absolute THEN AbsoluteAddress(item.sig.ident)
                         ELSE DynamicallyLinked(name.name)
             d == emit_def_from_signature(item.sig,
                      FunctionDefOpts(FALSE, location, item.sig.unsafety))
         IN IF d.ok THEN Emitted(<<d.def>>) ELSE Failed(d.err)

\* attr.parse_nested_meta with the callback of handle_foreign_mod, on the
\* tokens between the parentheses (at least one): a path is read, then the
\* callback parses FuncArgs from what follows the path, up to the end
parse_nested_meta(tokens, override_args) ==
    IF tokens[1] = "," THEN ArgsErr("expected nested attribute")
    ELSE IF override_args.some THEN ArgsErr("Conflicting #[reflect_func] attributes")
    ELSE FuncArgsParseFrom(tokens, 2, FALSE)

\* Result<Option<FuncArgs>, Error>
OverrideOk(o) == [ok |-> TRUE, override_args |-> o, err |-> ""]

OverrideErr(msg) ==
    [ok |-> FALSE, override_args |-> [some |-> FALSE, absolute |-> FALSE], err |-> msg]

\* The `for attr in &item.attrs` loop of handle_foreign_mod, from
\* attribute i on
RECURSIVE OverrideArgsFrom(_, _, _)
OverrideArgsFrom(attrs, i, override_args) ==
    IF i > Len(attrs) THEN OverrideOk(override_args)
    ELSE IF attrs[i].path = FUNC_ATTR_NAME
         THEN IF attrs[i].meta # "List"
              THEN OverrideErr("expected attribute arguments in parentheses")
              ELSE IF attrs[i].tokens = <<>>
              THEN OverrideArgsFrom(attrs, i + 1, override_args)
              ELSE LET parsed == parse_nested_meta(attrs[i].tokens, override_args) IN
                   IF ~parsed.ok THEN OverrideErr(parsed.err)
                   ELSE OverrideArgsFrom(attrs, i + 1, [some |-> TRUE, absolute |-> parsed.absolute])
         ELSE OverrideArgsFrom(attrs, i + 1, override_args)

\* A ForeignItem: a function, or another item ("static"), which is passed
\* through
ForeignItem(k, attrs, sig) == [kind |-> k, attrs |-> attrs, sig |-> sig]

\* The arm ForeignItem::Fn of the loop of handle_foreign_mod
ForeignItemResult(item) ==
    LET o == OverrideArgsFrom(item.attrs, 1, [some |-> FALSE, absolute |-> FALSE])
        link_name == determine_foreign_link_name(item.attrs, 1)
    IN IF ~o.ok THEN DefErr(o.err)
       ELSE IF o.override_args.some /\ o.override_args.absolute
            THEN DefErr("Absolute locations aren't supported in foreign functions")
       ELSE IF ~link_name.ok THEN DefErr(link_name.err)
       ELSE emit_def_from_signature(item.sig,
                FunctionDefOpts(TRUE, DynamicallyLinked(link_name.name), TRUE))

\* The `for item in &item.items` loop of handle_foreign_mod, from item i on
RECURSIVE ForeignItemsFrom(_, _, _)
ForeignItemsFrom(items, i, result_static_defs) ==
    IF i > Len(items) THEN Emitted(result_static_defs)
    ELSE IF items[i].kind # "fn" THEN ForeignItemsFrom(items, i + 1, result_static_defs)
    ELSE LET d == ForeignItemResult(items[i]) IN
         IF ~d.ok THEN Failed(d.err)
         ELSE ForeignItemsFrom(items, i + 1, Append(result_static_defs, d.def))

\* An ItemForeignMod
ItemForeignMod(abi, items) == [what |-> "ItemForeignMod", abi |-> abi, items |-> items]

\* handle_foreign_mod
handle_foreign_mod(item, default_args) ==
    IF default_args.absolute
    THEN Failed("Absolute locations aren't supported in foreign functions")
    ELSE IF item.abi \notin {"C", ""} THEN Failed("Expected C ABI")
    ELSE ForeignItemsFrom(item.items, 1, <<>>)

\* handle_item
handle_item(item, args) ==
    CASE item.what = "ItemFn" -> handle_fn_def(item, args)
      [] item.what = "ItemForeignMod" -> handle_foreign_mod(item, args)
      [] OTHER -> Failed("Invalid target for #[reflect_func]")

\* reflect_func: the arguments of the attribute are parsed, then the item
\* is handled
reflect_func(args, item) ==
    LET parsed == FuncArgsParse(args) IN
    IF ~parsed.ok THEN Failed(parsed.err) ELSE handle_item(item, parsed)

\* The attributes a function definition carries beside reflect_func
FnAttrChoices ==
    {MetaPath("no_mangle"), MetaNameValue("export_name", LitStr("better_name")),
     MetaNameValue("export_name", NotAString), MetaPath("inline")}

\* The function definitions of the input
ItemFnChoices ==
    {ItemFn(attrs, Signature("f", abi, unsafety, inputs, output)) :
        attrs \in UNION {SeqsOfLen(FnAttrChoices, n) : n \in 0..MaxAttrs},
        abi \in {"C", "", NoAbi, "system"}, unsafety \in BOOLEAN,
        inputs \in {<<>>, <<"f32">>, <<"u32", "ptr">>, <<"self">>}, output \in {NoType, Ty("f32")}}

\* The attributes a function of a foreign block carries
ForeignAttrChoices ==
    {<<>>,
     <<MetaNameValue("link_name", LitStr("sqrtf"))>>,
     <<MetaPath("inline"), MetaNameValue("link_name", LitStr("sqrtf"))>>,
     <<MetaNameValue("link_name", NotAString)>>,
     <<MetaPath(FUNC_ATTR_NAME)>>,
     <<MetaList(FUNC_ATTR_NAME, <<>>)>>,
     <<MetaList(FUNC_ATTR_NAME, <<"absolute">>)>>,
     <<MetaList(FUNC_ATTR_NAME, <<"absolute", "absolute">>)>>,
     <<MetaList(FUNC_ATTR_NAME, <<"absolute", ",", "absolute">>)>>,
     <<MetaList(FUNC_ATTR_NAME, <<"dynamic">>), MetaList(FUNC_ATTR_NAME, <<"dynamic">>)>>,
     <<MetaList(FUNC_ATTR_NAME, <<"absolute">>), MetaNameValue("link_name", LitStr("sqrtf"))>>}

\* The items of a foreign block: functions, and a static
ForeignItemChoices ==
    {ForeignItem("fn", attrs, Signature("sqrt", NoAbi, FALSE, <<"f32">>, Ty("f32"))) :
        attrs \in ForeignAttrChoices}
    \cup {ForeignItem("static", <<>>, Signature("errno", NoAbi, FALSE, <<>>, NoType))}

\* The foreign blocks of the input
ItemForeignModChoices ==
    {ItemForeignMod(abi, items) :
        abi \in {"C", "", "system"},
        items \in UNION {SeqsOfLen(ForeignItemChoices, n) : n \in 0..MaxItems}}

\* One expansion of reflect_func on an item
FuncInit ==
    /\ kind = "none"
    /\ style = "named"
    /\ nfields = 0
    /\ repr_items = <<>>
    /\ variants = <<>>
    /\ type_info = NoTypeInfo
    /\ input = <<>>
    /\ pc = "call"
    /\ fields = <<>>
    /\ current_offset = 0
    /\ gt = NoLayout
    /\ expected = NoLayout
    /\ def = NoLayout
    /\ outcome = "none"
    /\ subject \in {Subject(item.what, [args |-> args, item |-> item]) :
                       args \in {<<>>, <<"absolute">>, <<"relative">>},
                       item \in ItemFnChoices \cup ItemForeignModChoices \cup {[what |-> "ItemStruct"]}}
    /\ returned = NotCalled

\* reflect_func on a function definition
ReflectFunc_ItemFn ==
    /\ subject.what = "ItemFn"
    /\ Returns("reflect_func", reflect_func(subject.value.args, subject.value.item))

\* reflect_func on a foreign block
ReflectFunc_ItemForeignMod ==
    /\ subject.what = "ItemForeignMod"
    /\ Returns("reflect_func", reflect_func(subject.value.args, subject.value.item))

\* reflect_func on any other item
ReflectFunc_InvalidTarget ==
    /\ subject.what = "ItemStruct"
    /\ Returns("reflect_func", reflect_func(subject.value.args, subject.value.item))

FuncNext ==
    \/ ReflectFunc_ItemFn
    \/ ReflectFunc_ItemForeignMod
    \/ ReflectFunc_InvalidTarget

FuncSpec == FuncInit /\ [][FuncNext]_vars

\* The function definition reflect_func has been expanded on, its
\* arguments and the result
ExpandedOn(what) == subject.what = what /\ Called("reflect_func")

TheItem == subject.value.item

TheArgs == subject.value.args

TheResult == returned["reflect_func"]

HasNoMangle(attrs) ==
    \E i \in 1..Len(attrs) : attrs[i] = MetaPath("no_mangle")

HasExportName(attrs) ==
    \E i \in 1..Len(attrs) : attrs[i].meta = "NameValue" /\ attrs[i].path = "export_name"

ExportsAs(attrs, s) ==
    \E i \in 1..Len(attrs) : attrs[i] = MetaNameValue("export_name", LitStr(s))

ExportsNoString(attrs) ==
    \E i \in 1..Len(attrs) : attrs[i] = MetaNameValue("export_name", NotAString)

\* The signature is one a declaration can be made of: extern "C" and
\* without a receiver
DeclarableFn(sig) ==
    sig.abi = "C" /\ \A i \in 1..Len(sig.inputs) : sig.inputs[i] # "self"

\* C22: for a function definition annotated with reflect_func, with the
\* absolute flag the location of the declaration is AbsoluteAddress of that
\* function whatever link attributes it has; without the flag the location
\* is DynamicallyLinked, with link_name None only when the function is
\* #[no_mangle] and Some(s) only when it has #[export_name = s], and the
\* derivation fails when it has neither; is_unsafe is true exactly when the
\* function is declared unsafe.
C22_FunctionLocation ==
    (ExpandedOn("ItemFn") /\ TheArgs \in {<<>>, <<"absolute">>}) =>
        LET attrs == TheItem.attrs
            sig == TheItem.sig
            absolute == TheArgs = <<"absolute">>
            decl == TheResult.decls[1]
        IN /\ TheResult.ok => Len(TheResult.decls) = 1
           /\ (absolute /\ DeclarableFn(sig)) =>
                  TheResult.ok /\ decl.location = AbsoluteAddress(sig.ident)
           /\ (~absolute /\ TheResult.ok) =>
                  /\ decl.location.tag = "DynamicallyLinked"
                  /\ ~decl.location.link_name.some => HasNoMangle(attrs)
                  /\ decl.location.link_name.some =>
                         ExportsAs(attrs, decl.location.link_name.value)
           /\ (~absolute /\ DeclarableFn(sig) /\ HasNoMangle(attrs) /\ ~HasExportName(attrs)) =>
                  TheResult.ok /\ decl.location = DynamicallyLinked(NoName)
           /\ (~absolute /\ DeclarableFn(sig) /\ ~HasNoMangle(attrs)
                         /\ ExportsAs(attrs, "better_name")
                         /\ ~ExportsNoString(attrs)) =>
                  TheResult.ok /\ decl.location = DynamicallyLinked(SomeName("better_name"))
           /\ (~absolute /\ ~HasNoMangle(attrs) /\ ~HasExportName(attrs)) =>
                  ~TheResult.ok /\ TheResult.decls = <<>>
           /\ TheResult.ok => decl.is_unsafe = sig.unsafety

\* A declaration of an unsafe #[export_name] function has been emitted
C22_Witness ==
    /\ ExpandedOn("ItemFn")
    /\ TheArgs = <<>>
    /\ TheItem.attrs = <<MetaNameValue("export_name", LitStr("better_name"))>>
    /\ TheItem.sig.unsafety
    /\ TheResult.ok
    /\ TheResult.decls[1].location = DynamicallyLinked(SomeName("better_name"))
    /\ TheResult.decls[1].is_unsafe

\* The item of a foreign block asks for an absolute location
AsksAbsolute(item) ==
    \E i \in 1..Len(item.attrs) :
        /\ item.attrs[i].meta = "List"
        /\ item.attrs[i].path = FUNC_ATTR_NAME
        /\ \E j \in 1..Len(item.attrs[i].tokens) : item.attrs[i].tokens[j] = "absolute"

\* The link name #[link_name = s] gives the item
LinkNameOf(item) ==
    IF \E i \in 1..Len(item.attrs) : item.attrs[i].path = "link_name"
    THEN SomeName(item.attrs[CHOOSE i \in 1..Len(item.attrs) :
                                 item.attrs[i].path = "link_name"].value.value)
    ELSE NoName

\* The functions of the items
RECURSIVE FunctionsOf(_)
FunctionsOf(items) ==
    IF items = <<>> THEN <<>>
    ELSE IF Head(items).kind = "fn" THEN <<Head(items)>> \o FunctionsOf(Tail(items))
    ELSE FunctionsOf(Tail(items))

\* C23: for every function declared inside a foreign block annotated with
\* reflect_func, the emitted declaration has is_unsafe = true and location
\* DynamicallyLinked, with link_name Some(s) when the item has
\* #[link_name = s] and None otherwise; requesting absolute on the block or
\* on any item in it is an error and emits no declarations.
C23_ForeignBlock ==
    (ExpandedOn("ItemForeignMod") /\ TheArgs \in {<<>>, <<"absolute">>}) =>
        LET fns == FunctionsOf(TheItem.items) IN
        /\ TheResult.ok =>
               /\ Len(TheResult.decls) = Len(fns)
               /\ \A i \in 1..Len(fns) :
                      /\ TheResult.decls[i].is_unsafe
                      /\ TheResult.decls[i].location = DynamicallyLinked(LinkNameOf(fns[i]))
        /\ (TheArgs = <<"absolute">> \/ \E i \in 1..Len(fns) : AsksAbsolute(fns[i])) =>
               ~TheResult.ok /\ TheResult.decls = <<>>

====
